---- MODULE Spec2Model ----
(***************************************************************************)
(* A model of the geometry pipeline of psjhill_exporter: the grid clipper  *)
(* (clipper.py), the triangulator (triangulator.py), the mesh assembly of  *)
(* the exporter (psjhill_exporter.py) and the curve sampler and path       *)
(* metrics (util.py).                                                      *)
(*                                                                         *)
(* Coordinates are integers (lattice units).  Lengths of the sampler are   *)
(* integers in hundredths of a user unit, so that the source's threshold   *)
(* 0.01 is the integer 1.                                                  *)
(***************************************************************************)
EXTENDS Integers, Sequences, FiniteSets, TLC

(***************************************************************************)
(* Bounds of the model.                                                    *)
(***************************************************************************)
\* the largest width and height of a bounding box drawn as an input
MaxSide == 4
\* the largest grid_size drawn as an input
MaxGrid == 3
\* the largest number of polygons handed to clip_polygons
MaxPolys == 2
\* the number of inner-loop iterations after which a run with
\* grid_size <= 0 (which never leaves the loop) is no longer followed
MaxRunaway == 3

VARIABLES
    \* ---- inputs of a clipper call
    polygons,        \* the polygons: a sequence of vertex lists <<x, y, colour>>
    bounding_box,    \* [left, top, width, height]
    grid_size,
    optimize,
    \* ---- the call, applied as one step
    op,              \* "none" before the call, then the operation that ran
    result,          \* what the operation returned
    \* ---- clip_polygon run one loop iteration at a time
    pc,              \* "idle", "outer", "inner", "returned", "raised"
    bounding_box_x,
    bounding_box_y,
    output,
    iterations,      \* inner-loop bodies executed so far
    \* ---- csp_sub_points_dst and csp_sub_points_nodes_between, one loop iteration a step
    csp_sub,         \* the nodes of the sub-path, one segment between neighbours
    point_dst,
    nodes_between,
    add_last,
    seg_i,           \* the loop index i
    point_length,
    dst_to_next_point,
    length_left,
    points_out,      \* the list points
    spc,             \* "idle", "segment", "walk", "advance", "returned"
    \* ---- a path-metric function of util.py, applied as one step
    util_in,         \* the argument
    util_op,         \* "none" before the call, then the function that ran
    util_out,        \* what it returned
    \* ---- PsjHillEditor.effect run one method a step
    document,        \* what the drawing holds: special paths, textures
    files,           \* the files and directories this run has made and not removed
    epc,             \* the method effect is about to call, "done" or "aborted"
    error,           \* "none" or the exception that ended the run
    out_run_path,
    hill_size_cross,
    intersect_point,
    distance,
    textures,        \* the texture ids in self.textures
    atlas            \* the texture ids pack_textures packed into the atlas

vars == <<polygons, bounding_box, grid_size, optimize, op, result,
          pc, bounding_box_x, bounding_box_y, output, iterations,
          csp_sub, point_dst, nodes_between, add_last, seg_i, point_length, dst_to_next_point,
          length_left, points_out, spc,
          util_in, util_op, util_out,
          document, files, epc, error, out_run_path, hill_size_cross,
          intersect_point, distance, textures, atlas>>

clipInputs == <<polygons, bounding_box, grid_size, optimize>>
callVars == <<op, result>>
loopVars == <<pc, bounding_box_x, bounding_box_y, output, iterations>>
clipVars == <<clipInputs, callVars, loopVars>>
sampleInputs == <<csp_sub, point_dst, nodes_between, add_last>>
sampleLocals == <<seg_i, point_length, dst_to_next_point, length_left, points_out, spc>>
sampleVars == <<sampleInputs, sampleLocals>>
utilVars == <<util_in, util_op, util_out>>
hillLocals == <<out_run_path, hill_size_cross, intersect_point, distance>>
textureVars == <<textures, atlas>>
effectVars == <<document, files, epc, error, hillLocals, textureVars>>

(***************************************************************************)
(* Helpers on numbers and sequences.                                       *)
(***************************************************************************)
Min(a, b) == IF a < b THEN a ELSE b

Max(a, b) == IF a > b THEN a ELSE b

SetMin(S) == CHOOSE m \in S : \A n \in S : m <= n

SetMax(S) == CHOOSE m \in S : \A n \in S : m >= n

RECURSIVE SortedSeq(_)
SortedSeq(S) ==
    IF S = {} THEN <<>>
    ELSE <<SetMin(S)>> \o SortedSeq(S \ {SetMin(S)})

\* the concatenation of a sequence of sequences, in order
RECURSIVE Flatten(_)
Flatten(ss) ==
    IF ss = <<>> THEN <<>> ELSE Head(ss) \o Flatten(Tail(ss))

\* Index counting positions from 1
IndexFromOne(s, x) == SetMin({k \in 1..Len(s) : s[k] = x})

\* list.index(x): the 0-based position of the first element equal to x
Index(s, x) == SetMin({k \in 1..Len(s) : s[k] = x}) - 1

Range(s) == {s[k] : k \in 1..Len(s)}

\* s[::-1]
Reverse(s) == [k \in 1..Len(s) |-> s[Len(s) + 1 - k]]

(***************************************************************************)
(* pyclipper: scaling to the clipper's integer domain and back, and the    *)
(* even-odd intersection of a subject path with a clip path.               *)
(*                                                                         *)
(* The library is not part of the repository; it is modelled by what it    *)
(* computes on rectilinear paths with lattice coordinates: the region      *)
(* inside both paths (even-odd rule) is decomposed over the elementary     *)
(* rectangles between the paths' coordinates, and its boundary is traced   *)
(* into closed rings, one per boundary loop, corners only.                 *)
(***************************************************************************)
\* the source uses 2 ** 31; on lattice coordinates every power of two
\* scales exactly, and 2 ** 10 keeps the products inside TLC's integers
SCALING_FACTOR == 2 ^ 10

scale_to_clipper(path) ==
    [k \in 1..Len(path) |-> <<path[k][1] * SCALING_FACTOR, path[k][2] * SCALING_FACTOR>>]

scale_from_clipper(paths) ==
    [r \in 1..Len(paths) |->
        [k \in 1..Len(paths[r]) |->
            <<paths[r][k][1] \div SCALING_FACTOR, paths[r][k][2] \div SCALING_FACTOR>>]]

\* edge k of a closed path runs from point k to the next point, cyclically
EdgeFrom(path, k) == path[k]

EdgeTo(path, k) == path[(k % Len(path)) + 1]

\* even-odd rule: the elementary rectangle whose lower corner is (x, y) is inside
\* the path iff an odd number of the path's vertical edges lie at or left of x
\* and span the rectangle's row
InsideEvenOdd(path, x, y) ==
    Cardinality({k \in 1..Len(path) :
        /\ EdgeFrom(path, k)[1] = EdgeTo(path, k)[1]
        /\ EdgeFrom(path, k)[1] <= x
        /\ Min(EdgeFrom(path, k)[2], EdgeTo(path, k)[2]) <= y
        /\ y < Max(EdgeFrom(path, k)[2], EdgeTo(path, k)[2])}) % 2 = 1

\* the directed unit edges (in index space) bounding a set of elementary rectangles,
\* each rectangle walked in the same rotational sense
BoundaryEdges(region) ==
    UNION {
        (IF <<c[1], c[2] - 1>> \notin region
            THEN {<<c, <<c[1] + 1, c[2]>>>>} ELSE {})
        \cup (IF <<c[1] + 1, c[2]>> \notin region
            THEN {<<<<c[1] + 1, c[2]>>, <<c[1] + 1, c[2] + 1>>>>} ELSE {})
        \cup (IF <<c[1], c[2] + 1>> \notin region
            THEN {<<<<c[1] + 1, c[2] + 1>>, <<c[1], c[2] + 1>>>>} ELSE {})
        \cup (IF <<c[1] - 1, c[2]>> \notin region
            THEN {<<<<c[1], c[2] + 1>>, c>>} ELSE {})
        : c \in region}

EdgeDir(e) == <<e[2][1] - e[1][1], e[2][2] - e[1][2]>>

\* the edge of E that leaves the lowest vertex (by x, then y)
FirstEdge(E) ==
    CHOOSE e \in E : \A f \in E :
        \/ e[1][1] < f[1][1]
        \/ (e[1][1] = f[1][1] /\ e[1][2] <= f[1][2])

\* follow the boundary from edge `cur` until it closes at `start`
RECURSIVE TraceLoop(_, _, _, _)
TraceLoop(E, cur, start, acc) ==
    IF cur[2] = start THEN Append(acc, cur)
    ELSE LET next == CHOOSE e \in E : e[1] = cur[2]
         IN TraceLoop(E \ {next}, next, start, Append(acc, cur))

\* the corners of a closed loop of unit edges: the vertices where the direction turns
LoopCorners(loop) ==
    LET n == Len(loop)
        turns == {k \in 1..n : EdgeDir(loop[k]) # EdgeDir(loop[IF k = 1 THEN n ELSE k - 1])}
        order == SortedSeq(turns)
    IN [k \in 1..Len(order) |-> loop[order[k]][1]]

\* all rings of a boundary edge set, lowest start vertex first
RECURSIVE TraceRings(_)
TraceRings(E) ==
    IF E = {} THEN <<>>
    ELSE LET first == FirstEdge(E)
             loop == TraceLoop(E \ {first}, first, first[1], <<>>)
         IN <<LoopCorners(loop)>> \o TraceRings(E \ {loop[k] : k \in 1..Len(loop)})

\* Pyclipper.Execute(CT_INTERSECTION, PFT_EVENODD, PFT_EVENODD) with one clip path
\* and one subject path
Execute(clip, subject) ==
    LET XS == SortedSeq({clip[k][1] : k \in 1..Len(clip)}
                        \cup {subject[k][1] : k \in 1..Len(subject)})
        YS == SortedSeq({clip[k][2] : k \in 1..Len(clip)}
                        \cup {subject[k][2] : k \in 1..Len(subject)})
        region == {c \in (1..(Len(XS) - 1)) \X (1..(Len(YS) - 1)) :
                      /\ InsideEvenOdd(clip, XS[c[1]], YS[c[2]])
                      /\ InsideEvenOdd(subject, XS[c[1]], YS[c[2]])}
        rings == TraceRings(BoundaryEdges(region))
    IN [r \in 1..Len(rings) |->
           [k \in 1..Len(rings[r]) |-> <<XS[rings[r][k][1]], YS[rings[r][k][2]]>>]]

(***************************************************************************)
(* clipper.py                                                              *)
(***************************************************************************)
\* points = [(verticle[0], verticle[1]) for verticle in vertices]
Points(vertices) ==
    [k \in 1..Len(vertices) |-> <<vertices[k][1], vertices[k][2]>>]

\* ClipPath with the cell's first corner left at the origin
ClipPathFromOrigin(x, y, x2, y2) ==
    <<<<0, 0>>, <<x2, 0>>, <<x2, y2>>, <<0, y2>>>>

\* the clip rectangle of the cell from (x, y) to (x2, y2)
ClipPath(x, y, x2, y2) == <<<<x, y>>, <<x2, y>>, <<x2, y2>>, <<x, y2>>>>

\* ClampedEnd without the min(): the last column and row keep the full grid_size
ClampedEndUnclamped(start, g, low, extent) == start + g

\* bounding_box_x2 (and, with top and height, bounding_box_y2)
ClampedEnd(start, g, low, extent) == Min(start + g, low + extent)

\* Solution appending one fixed colour, whatever the polygon's
SolutionInRed(vertices, x, y, x2, y2) ==
    LET solution == scale_from_clipper(
                        Execute(scale_to_clipper(ClipPath(x, y, x2, y2)),
                                scale_to_clipper(Points(vertices))))
    IN [r \in 1..Len(solution) |->
           [k \in 1..Len(solution[r]) |->
               <<solution[r][k][1], solution[r][k][2], "#ff0000ff">>]]

\* the solution of one cell: the rings of the intersection, every point with the
\* colour of the polygon's first vertex appended
Solution(vertices, x, y, x2, y2) ==
    LET solution == scale_from_clipper(
                        Execute(scale_to_clipper(ClipPath(x, y, x2, y2)),
                                scale_to_clipper(Points(vertices))))
    IN [r \in 1..Len(solution) |->
           [k \in 1..Len(solution[r]) |->
               <<solution[r][k][1], solution[r][k][2], vertices[1][3]>>]]

\* the cell record appended for the cell whose corner is (x, y)
Cell(vertices, bb, g, x, y) ==
    LET x2 == ClampedEnd(x, g, bb.left, bb.width)
        y2 == ClampedEnd(y, g, bb.top, bb.height)
    IN [boundingBoxX |-> x,
        boundingBoxY |-> y,
        boundingBoxWidth |-> x2 - x,
        boundingBoxHeight |-> y2 - y,
        vertices |-> Solution(vertices, x, y, x2, y2)]

\* KeepCell with "or not optimize" forgotten
KeepCellNonEmpty(cell, opt) == Len(cell.vertices) > 0

\* if len(solution) > 0 or not optimize
KeepCell(cell, opt) == Len(cell.vertices) > 0 \/ ~opt

\* one body of the inner loop: the output after the cell at (x, y)
AppendCell(out, vertices, bb, g, opt, x, y) ==
    LET cell == Cell(vertices, bb, g, x, y)
    IN IF KeepCell(cell, opt) THEN Append(out, cell) ELSE out

\* InnerCond with <= for <
InnerCondInclusive(bb, y) == y <= bb.top + bb.height

\* OuterCond with <= for <
OuterCondInclusive(bb, x) == x <= bb.left + bb.width

OuterCond(bb, x) == x < bb.left + bb.width

InnerCond(bb, y) == y < bb.top + bb.height

\* the inner while loop, from bounding_box_y = y
RECURSIVE InnerLoop(_, _, _, _, _, _, _)
InnerLoop(out, vertices, bb, g, opt, x, y) ==
    IF InnerCond(bb, y)
    THEN InnerLoop(AppendCell(out, vertices, bb, g, opt, x, y),
                   vertices, bb, g, opt, x, y + g)
    ELSE out

\* the outer while loop, from bounding_box_x = x
RECURSIVE OuterLoop(_, _, _, _, _, _)
OuterLoop(out, vertices, bb, g, opt, x) ==
    IF OuterCond(bb, x)
    THEN OuterLoop(InnerLoop(out, vertices, bb, g, opt, x, bb.top),
                   vertices, bb, g, opt, x + g)
    ELSE out

\* clip_polygon(vertices, bounding_box, grid_size, optimize), for grid_size > 0
\* (the loops do not end otherwise: see the step-by-step run below)
clip_polygon(vertices, bb, g, opt) ==
    OuterLoop(<<>>, vertices, bb, g, opt, bb.left)

\* MergeInto putting the later polygon's rings in front
MergeIntoFront(output1, out) ==
    [idx \in 1..Len(output1) |->
        IF idx <= Len(out)
        THEN [output1[idx] EXCEPT !.vertices = out[idx].vertices \o @]
        ELSE output1[idx]]

\* output1[idx]['vertices'].append(solution) for every solution of every cell of
\* `out`; enumerate(output) pairs cell idx of `out` with cell idx of output1
MergeInto(output1, out) ==
    [idx \in 1..Len(output1) |->
        IF idx <= Len(out)
        THEN [output1[idx] EXCEPT !.vertices = @ \o out[idx].vertices]
        ELSE output1[idx]]

\* MergeRest clipping the later polygons with optimize left at its default (True)
RECURSIVE MergeRestOptimized(_, _, _, _, _)
MergeRestOptimized(output1, polys, k, bb, g) ==
    IF k > Len(polys) THEN output1
    ELSE MergeRestOptimized(MergeInto(output1, clip_polygon(polys[k], bb, g, TRUE)),
                            polys, k + 1, bb, g)

\* the loop over polygons[1:], folding every later polygon's cells into output1
RECURSIVE MergeRest(_, _, _, _, _)
MergeRest(output1, polys, k, bb, g) ==
    IF k > Len(polys) THEN output1
    ELSE MergeRest(MergeInto(output1, clip_polygon(polys[k], bb, g, FALSE)),
                   polys, k + 1, bb, g)

\* clip_polygons(polygons, bounding_box, grid_size), for a non-empty list
clip_polygons(polys, bb, g) ==
    SelectSeq(MergeRest(clip_polygon(polys[1], bb, g, FALSE), polys, 2, bb, g),
              LAMBDA val : Len(val.vertices) > 0)

(***************************************************************************)
(* lib.tripy (not among the source files): ear clipping on the points of   *)
(* one ring, as the specification describes it: repeatedly cut off a       *)
(* vertex whose triangle is convex, has positive area and contains no      *)
(* other vertex of the ring; a ring that cannot be reduced this way        *)
(* yields no triangle.                                                     *)
(***************************************************************************)
Abs(n) == IF n < 0 THEN -n ELSE n

\* twice the signed area of triangle a, b, c (negative for a left turn at b)
TriangleSum(a, b, c) ==
    a[1] * (c[2] - b[2]) + b[1] * (a[2] - c[2]) + c[1] * (b[2] - a[2])

\* twice the area of triangle a, b, c
TriangleArea2(a, b, c) == Abs(TriangleSum(a, b, c))

RECURSIVE ClockwiseSum(_, _)
ClockwiseSum(poly, k) ==
    IF k > Len(poly) THEN 0
    ELSE (EdgeTo(poly, k)[1] - EdgeFrom(poly, k)[1])
             * (EdgeTo(poly, k)[2] + EdgeFrom(poly, k)[2])
         + ClockwiseSum(poly, k + 1)

IsClockwise(poly) == ClockwiseSum(poly, 1) > 0

IsPointInside(p, a, b, c) ==
    TriangleArea2(a, b, c)
        = TriangleArea2(p, b, c) + TriangleArea2(a, p, c) + TriangleArea2(a, b, p)

PrevPoint(poly, i) == poly[IF i = 1 THEN Len(poly) ELSE i - 1]

NextPoint(poly, i) == poly[(i % Len(poly)) + 1]

IsEar(poly, i) ==
    LET a == PrevPoint(poly, i)
        b == poly[i]
        c == NextPoint(poly, i)
    IN /\ TriangleSum(a, b, c) < 0
       /\ TriangleArea2(a, b, c) > 0
       /\ \A k \in 1..Len(poly) :
              poly[k] \in {a, b, c} \/ ~IsPointInside(poly[k], a, b, c)

RemoveAt(s, i) == [k \in 1..(Len(s) - 1) |-> IF k < i THEN s[k] ELSE s[k + 1]]

RECURSIVE EarClipLoop(_, _)
EarClipLoop(poly, triangles) ==
    IF Len(poly) < 3 THEN triangles
    ELSE LET ears == {i \in 1..Len(poly) : IsEar(poly, i)}
         IN IF ears = {} THEN <<>>
            ELSE LET i == SetMin(ears)
                 IN EarClipLoop(RemoveAt(poly, i),
                        Append(triangles,
                               <<PrevPoint(poly, i), poly[i], NextPoint(poly, i)>>))

\* tripy.earclip(points): a list of triangles, each three points of the ring
earclip(points) ==
    EarClipLoop(IF IsClockwise(points) THEN Reverse(points) ELSE points, <<>>)

(***************************************************************************)
(* triangulator.py                                                         *)
(***************************************************************************)
\* RingIndicies looking up triangle[1] for the third corner as well
RingIndiciesRepeated(vertices) ==
    LET points == Points(vertices)
        triangulated_points == earclip(points)
    IN [t \in 1..Len(triangulated_points) |->
           <<Index(points, triangulated_points[t][1]),
             Index(points, triangulated_points[t][2]),
             Index(points, triangulated_points[t][2])>>]

\* the index triples of one ring: each triangle corner looked up in the ring's
\* own point list
RingIndicies(vertices) ==
    LET points == Points(vertices)
        triangulated_points == earclip(points)
    IN [t \in 1..Len(triangulated_points) |->
           <<Index(points, triangulated_points[t][1]),
             Index(points, triangulated_points[t][2]),
             Index(points, triangulated_points[t][3])>>]

\* new_object: one {vertices, indicies} per ring of the cell
NewObject(rings) ==
    [r \in 1..Len(rings) |->
        [vertices |-> rings[r], indicies |-> RingIndicies(rings[r])]]

\* triangulate_polygon(polygon): every cell loses 'vertices' and gains 'objects'
triangulate_polygon(polygon) ==
    [c \in 1..Len(polygon) |->
        [boundingBoxX |-> polygon[c].boundingBoxX,
         boundingBoxY |-> polygon[c].boundingBoxY,
         boundingBoxWidth |-> polygon[c].boundingBoxWidth,
         boundingBoxHeight |-> polygon[c].boundingBoxHeight,
         objects |-> NewObject(polygon[c].vertices)]]

(***************************************************************************)
(* psjhill_exporter.py: the sub-shapes of a shape and of a shape-group     *)
(***************************************************************************)
\* new_vertices: the vertices of the cell's objects, in order
NewVertices(objects) ==
    Flatten([r \in 1..Len(objects) |-> objects[r].vertices])

\* new_indicies of a shape: the objects' index triples, in order, as they are
ShapeIndicies(objects) ==
    Flatten([r \in 1..Len(objects) |-> objects[r].indicies])

\* new_indicies of a shape-group: the loop over the objects, start_indice growing
\* by the number of vertices of every object passed
RECURSIVE GroupIndicies(_, _, _)
GroupIndicies(objects, r, start_indice) ==
    IF r > Len(objects) THEN <<>>
    ELSE [t \in 1..Len(objects[r].indicies) |->
             <<objects[r].indicies[t][1] + start_indice,
               objects[r].indicies[t][2] + start_indice,
               objects[r].indicies[t][3] + start_indice>>]
         \o GroupIndicies(objects, r + 1, start_indice + Len(objects[r].vertices))

\* a cell after its objects were replaced by one vertex list and one index list
MeshCell(clip, indicies) ==
    [boundingBoxX |-> clip.boundingBoxX,
     boundingBoxY |-> clip.boundingBoxY,
     boundingBoxWidth |-> clip.boundingBoxWidth,
     boundingBoxHeight |-> clip.boundingBoxHeight,
     vertices |-> NewVertices(clip.objects),
     indicies |-> indicies]

\* the flattening loop of a shape over the triangulated cells
ShapeMesh(clipped) ==
    LET triangulated == triangulate_polygon(clipped)
    IN [c \in 1..Len(triangulated) |->
           MeshCell(triangulated[c], ShapeIndicies(triangulated[c].objects))]

\* the re-basing loop of a shape-group over the triangulated cells
GroupMesh(clipped) ==
    LET triangulated == triangulate_polygon(clipped)
    IN [c \in 1..Len(triangulated) |->
           MeshCell(triangulated[c], GroupIndicies(triangulated[c].objects, 1, 0))]

\* 'subShapes' of a shape: clip_polygon (optimize left at its default), then the
\* triangulator, then the flattening loop
ShapeSubShapes(vertices, bbox, cut_grid_size) ==
    ShapeMesh(clip_polygon(vertices, bbox, cut_grid_size, TRUE))

\* 'subShapes' of a shape-group: clip_polygons, the triangulator, the re-basing loop
GroupSubShapes(shapes, bbox, cut_grid_size) ==
    GroupMesh(clip_polygons(shapes, bbox, cut_grid_size))

(***************************************************************************)
(* The inputs drawn for the clipper and the exporter.                      *)
(***************************************************************************)
Red == "#ff0000ff"

Blue == "#0000ffff"

\* a rectangle sampled from a closed path: the closing point repeats the first
RectShape ==
    <<<<0, 0, Red>>, <<3, 0, Red>>, <<3, 2, Red>>, <<0, 2, Red>>, <<0, 0, Red>>>>

\* a U: a base 3 wide and 3 high with two prongs 1 wide on top of it
UShape ==
    <<<<0, 0, Blue>>, <<3, 0, Blue>>, <<3, 4, Blue>>, <<2, 4, Blue>>,
      <<2, 3, Blue>>, <<1, 3, Blue>>, <<1, 4, Blue>>, <<0, 4, Blue>>>>

SmallRect == <<<<2, 1, Blue>>, <<4, 1, Blue>>, <<4, 3, Blue>>, <<2, 3, Blue>>>>

\* a rectangle outside every bounding box of GridBoxes
FarRect == <<<<7, 0, Red>>, <<8, 0, Red>>, <<8, 1, Red>>, <<7, 1, Red>>>>

Shapes == {RectShape, UShape, SmallRect, FarRect}

PolygonSeqs == UNION {[1..n -> Shapes] : n \in 1..MaxPolys}

\* the bounding box of all vertices of a list of polygons
BBoxOfAll(polys) ==
    LET xs == UNION {{polys[i][k][1] : k \in 1..Len(polys[i])} : i \in 1..Len(polys)}
        ys == UNION {{polys[i][k][2] : k \in 1..Len(polys[i])} : i \in 1..Len(polys)}
    IN [left |-> SetMin(xs), top |-> SetMin(ys),
        width |-> SetMax(xs) - SetMin(xs), height |-> SetMax(ys) - SetMin(ys)]

\* boxes at two offsets, with sides that are and are not multiples of the grid sizes
GridBoxes ==
    {[left |-> l, top |-> 0, width |-> w, height |-> h] :
        l \in 0..1, w \in (MaxSide - 1)..MaxSide, h \in (MaxSide - 2)..MaxSide}

BBoxes == GridBoxes \cup {BBoxOfAll(ps) : ps \in PolygonSeqs}

(***************************************************************************)
(* The clipper and the exporter applied to drawn inputs, one call a step.  *)
(***************************************************************************)
LoopIdle ==
    /\ pc = "idle"
    /\ bounding_box_x = 0
    /\ bounding_box_y = 0
    /\ output = <<>>
    /\ iterations = 0

\* no sampling in progress and no path-metric call made
SampleIdle ==
    /\ csp_sub = <<>>
    /\ point_dst = 0
    /\ nodes_between = 0
    /\ add_last = FALSE
    /\ seg_i = 0
    /\ point_length = 0
    /\ dst_to_next_point = 0
    /\ length_left = 0
    /\ points_out = <<>>
    /\ spc = "idle"

UtilIdle ==
    /\ util_in = <<>>
    /\ util_op = "none"
    /\ util_out = <<>>

\* effect not called
EffectIdle ==
    /\ document = <<>>
    /\ files = {}
    /\ epc = "idle"
    /\ error = "none"
    /\ out_run_path = <<>>
    /\ hill_size_cross = <<>>
    /\ intersect_point = <<>>
    /\ distance = 0
    /\ textures = {}
    /\ atlas = {}

\* no clipping call made
ClipIdle ==
    /\ polygons = <<>>
    /\ bounding_box = [left |-> 0, top |-> 0, width |-> 0, height |-> 0]
    /\ grid_size = 0
    /\ optimize = TRUE
    /\ op = "none"
    /\ result = <<>>
    /\ LoopIdle

\* the square of the clipping example: 10 wide and 10 high, cut by a grid of 5
TenSquare == <<<<0, 0, Red>>, <<10, 0, Red>>, <<10, 10, Red>>, <<0, 10, Red>>>>

TenSquareBox == [left |-> 0, top |-> 0, width |-> 10, height |-> 10]

TenSquareGrid == TenSquareBox.width \div 2

InitClip ==
    /\ \/ /\ polygons \in PolygonSeqs
          /\ bounding_box \in BBoxes
          /\ grid_size \in 2..MaxGrid
       \/ /\ polygons = <<TenSquare>>
          /\ bounding_box = TenSquareBox
          /\ grid_size = TenSquareGrid
    /\ optimize = TRUE
    /\ op = "none"
    /\ result = <<>>
    /\ LoopIdle
    /\ SampleIdle
    /\ UtilIdle
    /\ EffectIdle

CallClipPolygon ==
    /\ op = "none"
    /\ Len(polygons) = 1
    /\ \E o \in BOOLEAN :
        /\ optimize' = o
        /\ result' = clip_polygon(polygons[1], bounding_box, grid_size, o)
    /\ op' = "clip_polygon"
    /\ UNCHANGED <<polygons, bounding_box, grid_size, loopVars, sampleVars, utilVars, effectVars>>

CallClipPolygons ==
    /\ op = "none"
    /\ result' = clip_polygons(polygons, bounding_box, grid_size)
    /\ op' = "clip_polygons"
    /\ UNCHANGED <<clipInputs, loopVars, sampleVars, utilVars, effectVars>>

\* a node of type "shape" outside a shape-group: bbox is the node's bounding box
ExportShape ==
    /\ op = "none"
    /\ Len(polygons) = 1
    /\ bounding_box = BBoxOfAll(polygons)
    /\ result' = ShapeSubShapes(polygons[1], bounding_box, grid_size)
    /\ op' = "shape"
    /\ UNCHANGED <<clipInputs, loopVars, sampleVars, utilVars, effectVars>>

\* a node of type "shape-group": its shapes are the children, bbox the group's
ExportShapeGroup ==
    /\ op = "none"
    /\ bounding_box = BBoxOfAll(polygons)
    /\ result' = GroupSubShapes(polygons, bounding_box, grid_size)
    /\ op' = "shape-group"
    /\ UNCHANGED <<clipInputs, loopVars, sampleVars, utilVars, effectVars>>

NextClip ==
    \/ CallClipPolygon
    \/ CallClipPolygons
    \/ ExportShape
    \/ ExportShapeGroup

SpecClip == InitClip /\ [][NextClip]_vars

(***************************************************************************)
(* clip_polygon run one loop iteration a step, for every grid_size: the    *)
(* source has no check of grid_size and no raise, so "raised" is a value   *)
(* of pc no step assigns.                                                  *)
(***************************************************************************)
InitLoop ==
    /\ polygons \in [1..1 -> Shapes]
    /\ bounding_box \in GridBoxes
    /\ grid_size \in (-1)..MaxGrid
    /\ optimize \in BOOLEAN
    /\ op = "none"
    /\ result = <<>>
    /\ LoopIdle
    /\ SampleIdle
    /\ UtilIdle
    /\ EffectIdle

\* output = []; bounding_box_x = bounding_box.left
LoopEnter ==
    /\ pc = "idle"
    /\ output' = <<>>
    /\ bounding_box_x' = bounding_box.left
    /\ pc' = "outer"
    /\ UNCHANGED <<clipInputs, callVars, bounding_box_y, iterations,
                 sampleVars, utilVars, effectVars>>

\* the outer test holds: bounding_box_y = bounding_box.top
LoopOuterBody ==
    /\ pc = "outer"
    /\ OuterCond(bounding_box, bounding_box_x)
    /\ bounding_box_y' = bounding_box.top
    /\ pc' = "inner"
    /\ UNCHANGED <<clipInputs, callVars, bounding_box_x, output, iterations,
                 sampleVars, utilVars, effectVars>>

\* the outer test fails: return output
LoopReturn ==
    /\ pc = "outer"
    /\ ~OuterCond(bounding_box, bounding_box_x)
    /\ pc' = "returned"
    /\ op' = "clip_polygon"
    /\ result' = output
    /\ UNCHANGED <<clipInputs, bounding_box_x, bounding_box_y, output, iterations,
                 sampleVars, utilVars, effectVars>>

\* the inner test holds: one cell, then bounding_box_y = bounding_box_y + grid_size
LoopInnerBody ==
    /\ pc = "inner"
    /\ InnerCond(bounding_box, bounding_box_y)
    /\ grid_size > 0 \/ iterations < MaxRunaway
    /\ output' = AppendCell(output, polygons[1], bounding_box, grid_size, optimize,
                            bounding_box_x, bounding_box_y)
    /\ bounding_box_y' = bounding_box_y + grid_size
    /\ iterations' = iterations + 1
    /\ UNCHANGED <<clipInputs, callVars, pc, bounding_box_x,
                 sampleVars, utilVars, effectVars>>

\* the inner test fails: bounding_box_x = bounding_box_x + grid_size
LoopInnerExit ==
    /\ pc = "inner"
    /\ ~InnerCond(bounding_box, bounding_box_y)
    /\ bounding_box_x' = bounding_box_x + grid_size
    /\ pc' = "outer"
    /\ UNCHANGED <<clipInputs, callVars, bounding_box_y, output, iterations,
                 sampleVars, utilVars, effectVars>>

NextLoop ==
    \/ LoopEnter
    \/ LoopOuterBody
    \/ LoopReturn
    \/ LoopInnerBody
    \/ LoopInnerExit

SpecLoop == InitLoop /\ [][NextLoop]_vars

\* the run of the loops returns what the operator clip_polygon computes
LoopAgrees ==
    pc = "returned" =>
        output = clip_polygon(polygons[1], bounding_box, grid_size, optimize)

\* with grid_size <= 0 a call that was entered stays inside the loops
LoopNeverLeaves ==
    (grid_size <= 0 /\ pc # "idle") => pc \in {"outer", "inner"}

(***************************************************************************)
(* Notions the properties of the clipper are stated with.                  *)
(***************************************************************************)
\* the unit squares (by their lower corner) of the rectangle at (x, y), w wide, h high
UnitSquares(x, y, w, h) == (x..(x + w - 1)) \X (y..(y + h - 1))

CellSquares(cell) ==
    UnitSquares(cell.boundingBoxX, cell.boundingBoxY,
                cell.boundingBoxWidth, cell.boundingBoxHeight)

BoxSquares(bb) == UnitSquares(bb.left, bb.top, bb.width, bb.height)

\* the unit squares covered by the cells of a cell list
Covered(cells) == UNION {CellSquares(cells[k]) : k \in 1..Len(cells)}

\* no two cells of the list share a unit square
NoOverlap(cells) ==
    \A j, k \in 1..Len(cells) :
        j # k => CellSquares(cells[j]) \cap CellSquares(cells[k]) = {}

\* ceil(a / b) for b > 0
CeilDiv(a, b) == (a + b - 1) \div b

\* two unit squares of the bounding box lie in the same grid cell
SameGridCell(bb, g, u, v) ==
    /\ (u[1] - bb.left) \div g = (v[1] - bb.left) \div g
    /\ (u[2] - bb.top) \div g = (v[2] - bb.top) \div g

\* the unit square u is inside one of the polygons
InsideSome(polys, u) ==
    \E i \in 1..Len(polys) : InsideEvenOdd(Points(polys[i]), u[1], u[2])

\* the unit squares of the grid cells that some polygon reaches into
ReachedSquares(polys, bb, g) ==
    {u \in BoxSquares(bb) :
        \E v \in BoxSquares(bb) : SameGridCell(bb, g, u, v) /\ InsideSome(polys, v)}

\* the rectangle of each cell of a cell list, without its rings
Geometry(cells) ==
    [k \in 1..Len(cells) |->
        <<cells[k].boundingBoxX, cells[k].boundingBoxY,
          cells[k].boundingBoxWidth, cells[k].boundingBoxHeight>>]

\* every vertex of the ring lies in the closed rectangle of the cell
RingInCell(ring, cell) ==
    \A k \in 1..Len(ring) :
        /\ cell.boundingBoxX <= ring[k][1]
        /\ ring[k][1] <= cell.boundingBoxX + cell.boundingBoxWidth
        /\ cell.boundingBoxY <= ring[k][2]
        /\ ring[k][2] <= cell.boundingBoxY + cell.boundingBoxHeight

NonEmptyCells(cells) == SelectSeq(cells, LAMBDA c : Len(c.vertices) > 0)

\* the polygons that a clip call worked on
Clipped == IF op = "clip_polygon" THEN <<polygons[1]>> ELSE polygons

(***************************************************************************)
(* C1: clip_polygon with grid_size <= 0 on a bounding box of positive      *)
(* width and height ends in an error: it never runs a loop body, never     *)
(* appends a cell and never returns a cell list.                           *)
(* The source has no such check; the run enters the inner loop and stays.  *)
(***************************************************************************)
C1_InvalidGridSizeRaises ==
    (grid_size <= 0 /\ pc # "idle") =>
        \/ pc = "raised"
        \/ (iterations = 0 /\ output = <<>> /\ pc # "returned")

\* the inner loop has run MaxRunaway bodies and is still inside
C1_Runaway ==
    /\ grid_size <= 0
    /\ pc = "inner"
    /\ iterations = MaxRunaway
    /\ InnerCond(bounding_box, bounding_box_y)

(***************************************************************************)
(* C2, as claimed: after every clip_polygon call (either optimize) and     *)
(* every clip_polygons call the returned cells cover exactly the bounding  *)
(* box and no two of them overlap.                                         *)
(***************************************************************************)
C2_UnionIsBoundingBox ==
    op \in {"clip_polygon", "clip_polygons"} =>
        /\ Covered(result) = BoxSquares(bounding_box)
        /\ NoOverlap(result)

(***************************************************************************)
(* C2, amended: no two returned cells overlap; with optimize = false the   *)
(* returned cells cover exactly the bounding box; with optimize = true and *)
(* for clip_polygons they cover exactly the grid cells that a polygon      *)
(* reaches into (the cells with an empty ring list are left out).          *)
(***************************************************************************)
C2_Coverage ==
    op \in {"clip_polygon", "clip_polygons"} =>
        /\ NoOverlap(result)
        /\ Covered(result) =
               IF op = "clip_polygon" /\ ~optimize
               THEN BoxSquares(bounding_box)
               ELSE ReachedSquares(Clipped, bounding_box, grid_size)

\* an optimized call that left a cell of the grid out
C2_Witness ==
    /\ op = "clip_polygon"
    /\ optimize
    /\ result # <<>>
    /\ Covered(result) # BoxSquares(bounding_box)

(***************************************************************************)
(* C3: clip_polygon with optimize = false returns exactly                  *)
(* ceil(width / grid_size) * ceil(height / grid_size) cells; each lies in  *)
(* the bounding box and is grid_size wide and high, except that the last   *)
(* column and row are clamped to the distance left to the box's edge; the  *)
(* cells tile the box without gap or overlap.                              *)
(***************************************************************************)
C3_Tiling ==
    (op = "clip_polygon" /\ ~optimize) =>
        LET bb == bounding_box
            g == grid_size
        IN /\ Len(result) = CeilDiv(bb.width, g) * CeilDiv(bb.height, g)
           /\ \A k \in 1..Len(result) :
                  LET c == result[k]
                  IN /\ CellSquares(c) \subseteq BoxSquares(bb)
                     /\ c.boundingBoxWidth = Min(g, bb.left + bb.width - c.boundingBoxX)
                     /\ c.boundingBoxHeight = Min(g, bb.top + bb.height - c.boundingBoxY)
                     /\ 0 < c.boundingBoxWidth /\ c.boundingBoxWidth <= g
                     /\ 0 < c.boundingBoxHeight /\ c.boundingBoxHeight <= g
                     /\ (c.boundingBoxX - bb.left) % g = 0
                     /\ (c.boundingBoxY - bb.top) % g = 0
           /\ NoOverlap(result)
           /\ Covered(result) = BoxSquares(bb)

\* a grid whose last column and last row are clamped
C3_Witness ==
    /\ op = "clip_polygon"
    /\ ~optimize
    /\ bounding_box.width % grid_size # 0
    /\ bounding_box.height % grid_size # 0
    /\ Len(result) >= 4

(***************************************************************************)
(* C4: clip_polygon with optimize = true returns the cells of the          *)
(* optimize = false result that have a ring, in the same order; with       *)
(* optimize = false every cell of the grid is returned.  For a polygon     *)
(* outside the bounding box that is no cell, against every cell, each      *)
(* with an empty ring list.                                                *)
(***************************************************************************)
C4_OptimizeFilters ==
    op = "clip_polygon" =>
        LET all == clip_polygon(polygons[1], bounding_box, grid_size, FALSE)
            outside == \A u \in BoxSquares(bounding_box) : ~InsideSome(Clipped, u)
        IN /\ optimize => result = NonEmptyCells(all)
           /\ ~optimize =>
                  /\ Len(result) = CeilDiv(bounding_box.width, grid_size)
                                       * CeilDiv(bounding_box.height, grid_size)
                  /\ NonEmptyCells(result) = clip_polygon(polygons[1], bounding_box,
                                                          grid_size, TRUE)
           /\ (outside /\ optimize) => result = <<>>
           /\ (outside /\ ~optimize) =>
                  /\ result # <<>>
                  /\ \A k \in 1..Len(result) : result[k].vertices = <<>>

\* an unoptimized call that returned empty cells and cells with rings
C4_Witness ==
    /\ op = "clip_polygon"
    /\ ~optimize
    /\ \E j, k \in 1..Len(result) :
           result[j].vertices = <<>> /\ result[k].vertices # <<>>

(***************************************************************************)
(* C5: clip_polygons returns, for each cell index, the cell with the rings *)
(* that clip_polygon (optimize = false) gave polygon 1, then polygon 2,    *)
(* ... at that index, one after the other and none merged; the cells       *)
(* without a ring are left out and the others keep the grid's order.       *)
(***************************************************************************)
\* the cells of polygon 1 with, at every index, the rings of all polygons in order;
\* each[i] is what clip_polygon (optimize = false) returned for polygon i
MergedCells(each) ==
    [idx \in 1..Len(each[1]) |->
        [each[1][idx] EXCEPT !.vertices =
            Flatten([i \in 1..Len(each) |-> each[i][idx].vertices])]]

C5_MergeConcatenates ==
    op = "clip_polygons" =>
        \A each \in {[i \in 1..Len(polygons) |->
                         clip_polygon(polygons[i], bounding_box, grid_size, FALSE)]} :
            result = NonEmptyCells(MergedCells(each))

\* a merged cell holding rings of two polygons, next to a cell that was dropped
C5_Witness ==
    /\ op = "clip_polygons"
    /\ Len(polygons) >= 2
    /\ \E k \in 1..Len(result) :
           /\ Len(result[k].vertices) >= 2
           /\ result[k].vertices[1][1][3] # result[k].vertices[2][1][3]
    /\ Covered(result) # BoxSquares(bounding_box)

(***************************************************************************)
(* C6: for a bounding box and a grid_size, clip_polygon with               *)
(* optimize = false gives every polygon the same number of cells and the   *)
(* same rectangle at every index; so every ring of a cell of clip_polygons *)
(* lies in that cell's rectangle, and comes from a polygon that reaches    *)
(* into that rectangle.                                                    *)
(***************************************************************************)
C6_IndexAlignment ==
    op = "clip_polygons" =>
        /\ \A first \in {Geometry(clip_polygon(polygons[1], bounding_box, grid_size, FALSE))} :
               \A i \in 1..Len(polygons) :
                   Geometry(clip_polygon(polygons[i], bounding_box, grid_size, FALSE)) = first
        /\ \A k \in 1..Len(result) : \A r \in 1..Len(result[k].vertices) :
               /\ RingInCell(result[k].vertices[r], result[k])
               /\ \E i \in 1..Len(polygons) :
                      /\ polygons[i][1][3] = result[k].vertices[r][1][3]
                      /\ \E u \in CellSquares(result[k]) : InsideSome(<<polygons[i]>>, u)

\* two polygons that share no cell: every returned cell holds the rings of one
C6_Witness ==
    /\ op = "clip_polygons"
    /\ Len(polygons) >= 2
    /\ Len(result) >= 2
    /\ \E j, k \in 1..Len(result) :
           /\ \A r \in 1..Len(result[j].vertices) : result[j].vertices[r][1][3] = Red
           /\ \A r \in 1..Len(result[k].vertices) : result[k].vertices[r][1][3] = Blue

(***************************************************************************)
(* C7: in every exported cell mesh, of a shape and of a shape-group, the   *)
(* vertex buffer is the cell's rings one after the other, and the index    *)
(* triples of ring r are those of the ring raised by the number of         *)
(* vertices of the rings before it, so that they point into ring r's own   *)
(* part of the buffer.                                                     *)
(* The shape path concatenates the triples without raising them.           *)
(***************************************************************************)
\* the number of vertices of the rings before ring r
VerticesBefore(rings, r) == Len(Flatten(SubSeq(rings, 1, r - 1)))

\* the index triples of ring r, raised by the vertices before it
Rebased(rings, r) ==
    LET local == RingIndicies(rings[r])
    IN [t \in 1..Len(local) |->
           <<local[t][1] + VerticesBefore(rings, r),
             local[t][2] + VerticesBefore(rings, r),
             local[t][3] + VerticesBefore(rings, r)>>]

\* the clip result the exported mesh was made from
ExportedFrom ==
    IF op = "shape"
    THEN clip_polygon(polygons[1], bounding_box, grid_size, TRUE)
    ELSE clip_polygons(polygons, bounding_box, grid_size)

C7_IndicesRebased ==
    op \in {"shape", "shape-group"} =>
        \A from \in {ExportedFrom} :
            /\ Len(result) = Len(from)
            /\ \A c \in 1..Len(result) :
                   /\ result[c].vertices = Flatten(from[c].vertices)
                   /\ result[c].indicies =
                          Flatten([r \in 1..Len(from[c].vertices) |->
                                      Rebased(from[c].vertices, r)])

\* a shape whose cell holds two rings, both triangulated
C7_TwoRingCell ==
    /\ op = "shape"
    /\ \E c \in 1..Len(result) :
           /\ Len(ExportedFrom[c].vertices) = 2
           /\ Len(result[c].indicies) = 4

(***************************************************************************)
(* lib.inkex.bezier (not among the source files).  Lengths are whole       *)
(* thousandths of a unit.  A node of a sub-path is known by its arc-length *)
(* position along the chain and by its straight-line distance to the node  *)
(* before it; a point of the curve is its arc-length position along the    *)
(* chain; a curve parameter is a fraction <<n, d>>.  Segments are taken    *)
(* parametrised by arc length, so the parameter at a fraction of the       *)
(* length is that fraction.                                                *)
(***************************************************************************)
MaxSegs == 2

getbez(sp1, sp2) ==
    [start |-> sp1.arc, length |-> sp2.arc - sp1.arc, chord |-> sp2.chord]

bezierlength(bez) == bez.length

beziertatlength(bez, l) == l

bezierpointatt(bez, t) == bez.start + (t[1] * bez.length) \div t[2]

\* point_point_dst(start_point, end_point) of the segment's two ends
point_to_point_dst(bez) == bez.chord

(***************************************************************************)
(* util.csp_sub_points_dst                                                 *)
(***************************************************************************)
\* difference = abs(point_to_point_dst - length)
difference(bez) == Abs(point_to_point_dst(bez) - bezierlength(bez))

\* if difference > 0.01
Subdivides(bez) == difference(bez) > 10

\* if time > 0.0001 and time < 0.9999
TimeInside(time) ==
    /\ time[1] * 10000 > time[2]
    /\ time[1] * 10000 < 9999 * time[2]

\* the segment of this round of the loop: getbez(csp_sub[i-1], csp_sub[i])
CurrentBez == getbez(csp_sub[seg_i], csp_sub[seg_i + 1])

\* points = []; i = 1
SampleEnter ==
    /\ spc = "idle"
    /\ points_out' = <<>>
    /\ seg_i' = 1
    /\ spc' = "segment"
    /\ UNCHANGED <<clipVars, sampleInputs, point_length, dst_to_next_point,
                 length_left, utilVars, effectVars>>

\* the outer test holds: the segment's start point, then the walk if it bends
SampleSegment ==
    /\ spc = "segment"
    /\ seg_i <= Len(csp_sub) - 1
    /\ point_length' = 0
    /\ dst_to_next_point' = point_dst
    /\ length_left' = bezierlength(CurrentBez)
    /\ points_out' = Append(points_out, bezierpointatt(CurrentBez, <<0, 1>>))
    /\ spc' = IF Subdivides(CurrentBez) THEN "walk" ELSE "advance"
    /\ UNCHANGED <<clipVars, sampleInputs, seg_i, utilVars, effectVars>>

\* LengthLeftAfter with the subtraction left out
LengthLeftKept(left, dst) == left

\* length_left -= dst_to_next_point
LengthLeftAfter(left, dst) == left - dst

\* while dst_to_next_point < length_left: one more point of the walk
SampleWalk ==
    /\ spc = "walk"
    /\ dst_to_next_point < length_left
    /\ length_left' = LengthLeftAfter(length_left, dst_to_next_point)
    /\ point_length' = point_length + dst_to_next_point
    /\ dst_to_next_point' = point_dst
    /\ LET time == beziertatlength(CurrentBez,
                       <<point_length + dst_to_next_point, bezierlength(CurrentBez)>>)
       IN points_out' = IF TimeInside(time)
                        THEN Append(points_out, bezierpointatt(CurrentBez, time))
                        ELSE points_out
    /\ UNCHANGED <<clipVars, sampleInputs, seg_i, spc, utilVars, effectVars>>

\* the walk is over: dst_to_next_point -= length_left
SampleWalkExit ==
    /\ spc = "walk"
    /\ ~(dst_to_next_point < length_left)
    /\ dst_to_next_point' = dst_to_next_point - length_left
    /\ spc' = "advance"
    /\ UNCHANGED <<clipVars, sampleInputs, seg_i, point_length, length_left,
                 points_out, utilVars, effectVars>>

\* i = i+1; if add_last and i == len(csp_sub): the last segment's end point
SampleAdvance ==
    /\ spc = "advance"
    /\ seg_i' = seg_i + 1
    /\ points_out' = IF add_last /\ seg_i + 1 = Len(csp_sub)
                     THEN Append(points_out, bezierpointatt(CurrentBez, <<1, 1>>))
                     ELSE points_out
    /\ spc' = "segment"
    /\ UNCHANGED <<clipVars, sampleInputs, point_length, dst_to_next_point,
                 length_left, utilVars, effectVars>>

\* the outer test fails: return points
SampleReturn ==
    /\ spc = "segment"
    /\ ~(seg_i <= Len(csp_sub) - 1)
    /\ spc' = "returned"
    /\ UNCHANGED <<clipVars, sampleInputs, seg_i, point_length, dst_to_next_point,
                 length_left, points_out, utilVars, effectVars>>

(***************************************************************************)
(* Sub-paths to sample: chains of up to MaxSegs segments, each one of a    *)
(* few shapes given by arc length and chord.                               *)
(***************************************************************************)
\* the segment (0,0)->(10,0) with controls (3,0),(7,0)
StraightTen == [length |-> 10000, chord |-> 10000]
\* an arc whose length exceeds its chord by exactly the tolerance
BarelyBent == [length |-> 4010, chord |-> 4000]
CurvedThree == [length |-> 3000, chord |-> 2500]
CurvedFive == [length |-> 5000, chord |-> 4000]
\* an arc a thousandth longer than two spacings of ten units
LongCurve == [length |-> 20001, chord |-> 15000]

SegmentShapes == {StraightTen, BarelyBent, CurvedThree, CurvedFive, LongCurve}

SegmentSeqs == UNION {[1..n -> SegmentShapes] : n \in 0..MaxSegs}

RECURSIVE ArcBefore(_, _)
\* the arc length of the chain before its k-th node
ArcBefore(segs, k) ==
    IF k = 1 THEN 0 ELSE ArcBefore(segs, k - 1) + segs[k - 1].length

NodesOf(segs) ==
    [k \in 1..(Len(segs) + 1) |->
        [arc |-> ArcBefore(segs, k),
         chord |-> IF k = 1 THEN 0 ELSE segs[k - 1].chord]]

Spacings == {2000, 10000}

InitSample ==
    /\ csp_sub \in {NodesOf(segs) : segs \in SegmentSeqs}
    /\ point_dst \in Spacings
    /\ nodes_between = 0
    /\ add_last \in BOOLEAN
    /\ seg_i = 0
    /\ point_length = 0
    /\ dst_to_next_point = 0
    /\ length_left = 0
    /\ points_out = <<>>
    /\ spc = "idle"
    /\ ClipIdle
    /\ UtilIdle
    /\ EffectIdle

NextSample ==
    \/ SampleEnter
    \/ SampleSegment
    \/ SampleWalk
    \/ SampleWalkExit
    \/ SampleAdvance
    \/ SampleReturn

SpecSample == InitSample /\ [][NextSample]_vars

(***************************************************************************)
(* What a finished sampling run returned, read against the chain.          *)
(***************************************************************************)
Returned == spc = "returned"

\* the k-th segment of the sampled chain
SegmentAt(k) == getbez(csp_sub[k], csp_sub[k + 1])

\* the offsets from a segment's start that are multiples of the spacing and
\* strictly inside a segment of length len
Multiples(len, d) == {k * d : k \in 1..((len - 1) \div d)}

\* the multiples whose curve parameter is not within 1e-4 of 0 or 1
KeptMultiples(len, d) == {m \in Multiples(len, d) : TimeInside(<<m, len>>)}

\* the points returned strictly between the two nodes of the k-th segment
InteriorOf(k) ==
    {p \in Range(points_out) : csp_sub[k].arc < p /\ p < csp_sub[k + 1].arc}

\* C8: one straight segment of length L sampled with add_last gives
\* its start point, a point at every multiple of the spacing strictly less
\* than L, and its endpoint; (0,0)->(10,0) at spacing 2 gives x = 0, 2, .., 10.
C8_StraightSegmentEverySpacing ==
    (Returned /\ add_last /\ Len(csp_sub) = 2
              /\ difference(SegmentAt(1)) = 0)
        => points_out =
             SortedSeq({0} \cup Multiples(bezierlength(SegmentAt(1)), point_dst)
                           \cup {bezierlength(SegmentAt(1))})

\* What the code returns for one segment of length L sampled with add_last:
\* its start point, then, only when its arc length differs from its chord by
\* more than 0.01, a point at every multiple of the spacing strictly less
\* than L whose parameter is not within 1e-4 of 0 or 1, then its endpoint.
SegmentSampledOnlyIfBent ==
    (Returned /\ add_last /\ Len(csp_sub) = 2)
        => LET len == bezierlength(SegmentAt(1))
               bent == Abs(len - point_to_point_dst(SegmentAt(1))) > 10
           IN points_out =
                SortedSeq({0} \cup (IF bent THEN KeptMultiples(len, point_dst) ELSE {})
                              \cup {len})

\* the straight segment of ten units at spacing 2 came back as its two ends
C8_StraightTenTwoEnds ==
    /\ Returned
    /\ add_last
    /\ csp_sub = NodesOf(<<StraightTen>>)
    /\ point_dst = 2000
    /\ points_out = <<0, 10000>>

\* what is left of a segment of length len after its last multiple of d
Leftover(len, d) == len - d * ((len - 1) \div d)

\* C9: in a chain of two bent segments the first interior point of
\* the second segment lies at (spacing - leftover of the first segment) from
\* the second segment's start.
C9_SpacingCarriedOver ==
    (Returned /\ Len(csp_sub) = 3
              /\ Subdivides(SegmentAt(1)) /\ Subdivides(SegmentAt(2)))
        => LET len2 == bezierlength(SegmentAt(2))
               carried == point_dst - Leftover(bezierlength(SegmentAt(1)), point_dst)
               target == csp_sub[2].arc + carried
           IN (carried < len2 /\ TimeInside(<<carried, len2>>))
                 => /\ target \in InteriorOf(2)
                    /\ \A p \in InteriorOf(2) : p >= target

\* two arcs of three units at spacing 2: the second arc's only interior
\* point is a whole spacing after its start, three units after the point
\* before it along the chain
C9_CarryDropped ==
    /\ Returned
    /\ add_last
    /\ csp_sub = NodesOf(<<CurvedThree, CurvedThree>>)
    /\ point_dst = 2000
    /\ points_out = <<0, 2000, 3000, 5000, 6000>>

(***************************************************************************)
(* util.py path metrics.  A point is <<x, y>>; a point that a division     *)
(* made is <<xn, yn, d>> with d > 0 and no common factor, standing for     *)
(* (xn/d, yn/d).  A distance is a whole number of thousandths, the square  *)
(* root rounded down.                                                      *)
(***************************************************************************)
None == <<>>

RECURSIVE GCD(_, _)
GCD(a, b) == IF b = 0 THEN a ELSE GCD(b, a % b)

\* the point (xn/d, yn/d), d # 0, in lowest terms
Ratio(xn, yn, d) ==
    LET g == GCD(GCD(Abs(xn), Abs(yn)), Abs(d))
        s == IF d < 0 THEN -g ELSE g
    IN <<xn \div s, yn \div s, d \div s>>

AsRatio(p) == IF Len(p) = 3 THEN p ELSE <<p[1], p[2], 1>>

RECURSIVE SqrtBetween(_, _, _)
\* the largest r in lo..hi with r * r <= n
SqrtBetween(n, lo, hi) ==
    IF lo = hi THEN lo
    ELSE LET mid == (lo + hi + 1) \div 2
         IN IF mid * mid <= n THEN SqrtBetween(n, mid, hi)
                              ELSE SqrtBetween(n, lo, mid - 1)

Sqrt(n) == SqrtBetween(n, 0, Min(n, 46340))

\* math.sqrt((p1[0] - p2[0]) ** 2 + (p1[1] - p2[1])**2)
point_point_dst(p1, p2) ==
    LET a == AsRatio(p1)
        b == AsRatio(p2)
        dx == a[1] * b[3] - b[1] * a[3]
        dy == a[2] * b[3] - b[2] * a[3]
    IN Sqrt((dx * dx + dy * dy) * 1000 * 1000) \div (a[3] * b[3])

OutsideUnitOrOnEnd(n, d) ==
    \/ n * d <= 0
    \/ Abs(n) >= Abs(d)

\* n/d < 0 or n/d > 1, d # 0
OutsideUnit(n, d) ==
    \/ n * d < 0
    \/ Abs(n) > Abs(d)

intersect_segments(p1, p2, p3, p4) ==
    LET x1 == p1[1]
        y1 == p1[2]
        x2 == p2[1]
        y2 == p2[2]
        x3 == p3[1]
        y3 == p3[2]
        x4 == p4[1]
        y4 == p4[2]
        d == (y4 - y3) * (x2 - x1) - (x4 - x3) * (y2 - y1)
        yd == y1 - y3
        xd == x1 - x3
        ua == (x4 - x3) * yd - (y4 - y3) * xd
        ub == (x2 - x1) * yd - (y2 - y1) * xd
    IN IF d = 0 THEN None
       ELSE IF OutsideUnit(ua, d) THEN None
       ELSE IF OutsideUnit(ub, d) THEN None
       ELSE Ratio(x1 * d + (x2 - x1) * ua, y1 * d + (y2 - y1) * ua, d)

RECURSIVE calc_vertices_path_size_from(_, _)
\* the distance summed over the first k vertices
calc_vertices_path_size_from(vertices, k) ==
    IF k <= 1 THEN 0
    ELSE calc_vertices_path_size_from(vertices, k - 1)
             + point_point_dst(vertices[k - 1], vertices[k])

\* calc_vertices_path_size with the way back from the last vertex to the first added
calc_vertices_path_size_closed(vertices) ==
    calc_vertices_path_size_from(vertices, Len(vertices))
        + (IF Len(vertices) < 2 THEN 0
           ELSE point_point_dst(vertices[Len(vertices)], vertices[1]))

calc_vertices_path_size(vertices) ==
    calc_vertices_path_size_from(vertices, Len(vertices))

(***************************************************************************)
(* util.ensure_right_pointing_vertices on sequences of points <<x, y>>.    *)
(***************************************************************************)
MaxX == 2
MaxPoints == 3

ensure_right_pointing_vertices_on_ties(vertices) ==
    IF vertices[2][1] >= vertices[1][1] THEN vertices ELSE Reverse(vertices)

\* if(vertices[1][0] > vertices[0][0]): return vertices / else: return vertices[::-1]
ensure_right_pointing_vertices(vertices) ==
    IF vertices[2][1] > vertices[1][1] THEN vertices ELSE Reverse(vertices)

PathPoints == (0..MaxX) \X (0..1)

PointSeqs == UNION {[1..n -> PathPoints] : n \in 2..MaxPoints}

\* two segments, a1 a2 b1 b2
SegmentPoints == (0..MaxX) \X (0..MaxX)
TwoDiagonals == <<<<0, 0>>, <<10, 10>>, <<0, 10>>, <<10, 0>>>>
SegmentPairs == [1..4 -> SegmentPoints] \cup {TwoDiagonals}

InitUtil ==
    /\ util_in \in PointSeqs \cup SegmentPairs
    /\ util_op = "none"
    /\ util_out = <<>>
    /\ ClipIdle
    /\ SampleIdle
    /\ EffectIdle

CallEnsureRightPointing ==
    /\ util_op = "none"
    /\ util_op' = "ensure_right_pointing_vertices"
    /\ util_out' = ensure_right_pointing_vertices(util_in)
    /\ UNCHANGED <<clipVars, sampleVars, util_in, effectVars>>

CallIntersectSegments ==
    /\ util_op = "none"
    /\ Len(util_in) = 4
    /\ util_op' = "intersect_segments"
    /\ util_out' = intersect_segments(util_in[1], util_in[2], util_in[3], util_in[4])
    /\ UNCHANGED <<clipVars, sampleVars, util_in, effectVars>>

NextUtil ==
    \/ CallEnsureRightPointing
    \/ CallIntersectSegments

SpecUtil == InitUtil /\ [][NextUtil]_vars

Oriented == util_op = "ensure_right_pointing_vertices"

\* C10, as claimed: the sequence comes back reversed exactly when the first
\* point's x is strictly greater than the second's, and in its given order
\* otherwise, equal x included.
C10_ReversedIffFirstGreater ==
    Oriented
        => util_out = IF util_in[1][1] > util_in[2][1]
                      THEN Reverse(util_in)
                      ELSE util_in

\* C10, amended: the sequence comes back in its given order when the second
\* point's x is strictly greater than the first's, and reversed in every
\* other case, equal x included.
C10_ReversedUnlessSecondGreater ==
    Oriented
        => /\ util_in[2][1] > util_in[1][1] => util_out = util_in
           /\ util_in[2][1] <= util_in[1][1]
                 => /\ Len(util_out) = Len(util_in)
                    /\ \A k \in 1..Len(util_in) :
                           util_out[k] = util_in[Len(util_in) + 1 - k]

\* a sequence whose first two points share their x came back reversed
C10_TieReversed ==
    /\ Oriented
    /\ util_in[1][1] = util_in[2][1]
    /\ util_in[1] # util_in[Len(util_in)]
    /\ util_out[1] = util_in[Len(util_in)]
    /\ util_out # util_in

(***************************************************************************)
(* intersect_segments read against the geometry of its two segments.       *)
(***************************************************************************)
Intersected == util_op = "intersect_segments"

\* twice the signed area of the triangle p q r: 0 when r is on the line p q
Side(p, q, r) == (q[1] - p[1]) * (r[2] - p[2]) - (q[2] - p[2]) * (r[1] - p[1])

\* the directions of the segments p1 p2 and p3 p4 are not parallel
Crossing(p1, p2, p3, p4) ==
    (p4[2] - p3[2]) * (p2[1] - p1[1]) - (p4[1] - p3[1]) * (p2[2] - p1[2]) # 0

\* each segment has its two ends on the two sides of the other's line, or on it
Touching(p1, p2, p3, p4) ==
    /\ Side(p3, p4, p1) * Side(p3, p4, p2) <= 0
    /\ Side(p1, p2, p3) * Side(p1, p2, p4) <= 0

\* the point q = (xn/d, yn/d) is on the line through p1 and p2
OnLine(q, p1, p2) ==
    (p2[1] - p1[1]) * (q[2] - p1[2] * q[3]) = (p2[2] - p1[2]) * (q[1] - p1[1] * q[3])

\* C16: intersect_segments returns a point exactly when the determinant is
\* non-zero and both parameters are in [0, 1], ends included, that is when
\* the segments are not parallel and touch; the point is the one on both
\* lines; parallel or collinear segments give no intersection; and
\* (0,0),(10,10),(0,10),(10,0) gives (5,5).
C16_IntersectSegments ==
    Intersected
        => LET a1 == util_in[1]
               a2 == util_in[2]
               b1 == util_in[3]
               b2 == util_in[4]
           IN /\ (util_out # None)
                     <=> (Crossing(a1, a2, b1, b2) /\ Touching(a1, a2, b1, b2))
              /\ util_out # None
                     => /\ OnLine(util_out, a1, a2)
                        /\ OnLine(util_out, b1, b2)
              /\ util_in = TwoDiagonals => util_out = <<5, 5, 1>>

\* the two diagonals met in (5,5)
C16_DiagonalsMeet ==
    /\ Intersected
    /\ util_in = TwoDiagonals
    /\ util_out = <<5, 5, 1>>

(***************************************************************************)
(* PsjHillEditor.effect, one method a step.  The drawing is known by how   *)
(* many elements of each special type it holds, by the sampled points of   *)
(* its out-run and hill-size-cross paths and by its number of texture      *)
(* nodes; the other special paths have two points.  files holds what the   *)
(* run has written under output/ and the archive output.psj.               *)
(***************************************************************************)
MaxRunX == 2
MaxRun == 3

\* the special paths in the order generate_hill_model asks for them
SpecialPaths ==
    <<"in-run-physics", "out-run-physics", "out-run-top", "out-run-bottom",
      "start-gates-area", "hill-size-cross">>

SpecialTypes == Range(SpecialPaths) \cup {"viewpoint"}

\* generate_polygon_vertices_dst of the special path, made absolute
SampledPoints(doc, specialType) ==
    IF specialType = "out-run-physics" THEN doc.out_run
    ELSE IF specialType = "hill-size-cross" THEN doc.cross
    ELSE <<<<0, 0>>, <<1, 0>>>>

\* what get_special_path_points raises: Exception unless the document holds
\* exactly one such path, IndexError from vertices[1] under two points
SpecialPathError(doc, specialType) ==
    IF doc.special_count[specialType] # 1 THEN "Exception"
    ELSE IF Len(SampledPoints(doc, specialType)) < 2 THEN "IndexError"
    ELSE "none"

get_special_path_points(doc, specialType) ==
    ensure_right_pointing_vertices(SampledPoints(doc, specialType))

RECURSIVE FirstSpecialError(_, _)
\* the first exception among the special paths from the k-th on
FirstSpecialError(doc, k) ==
    IF k > Len(SpecialPaths) THEN "none"
    ELSE IF SpecialPathError(doc, SpecialPaths[k]) # "none"
         THEN SpecialPathError(doc, SpecialPaths[k])
         ELSE FirstSpecialError(doc, k + 1)

\* viewpoint[0] of the list xpath returned
ViewpointError(doc) ==
    IF doc.special_count["viewpoint"] = 0 THEN "IndexError" ELSE "none"

\* the exception before the hill-size loop, if any
SpecialError(doc) ==
    IF FirstSpecialError(doc, 1) # "none" THEN FirstSpecialError(doc, 1)
    ELSE ViewpointError(doc)

\* StepDistance measuring to the crossing by way of the segment's end
StepDistanceByVertex(first, vertex, ip) ==
    IF ip # None THEN point_point_dst(first, vertex) + point_point_dst(vertex, ip)
                 ELSE point_point_dst(first, vertex)

StepDistanceWhole(first, vertex, ip) == point_point_dst(first, vertex)

\* what one round of the hill-size loop adds to distance
StepDistance(first, vertex, ip) ==
    IF ip # None THEN point_point_dst(first, ip)
                 ELSE point_point_dst(first, vertex)

RECURSIVE HillSizeLoop(_, _, _, _)
\* for vertex in out_run_path, from the k-th vertex on; first is the one before
HillSizeLoop(path, cross, k, dist) ==
    IF k > Len(path) THEN [intersect_point |-> None, distance |-> dist]
    ELSE IF k = 1 THEN HillSizeLoop(path, cross, 2, dist)
    ELSE LET first == path[k - 1]
             vertex == path[k]
             ip == intersect_segments(first, vertex, cross[1], cross[2])
         IN IF ip # None
            THEN [intersect_point |-> ip,
                  distance |-> dist + StepDistance(first, vertex, ip)]
            ELSE HillSizeLoop(path, cross, k + 1,
                              dist + StepDistance(first, vertex, ip))

\* hill_size_cross = [hill_size_cross[0], hill_size_cross[-1]]
EndsOf(vertices) == <<vertices[1], vertices[Len(vertices)]>>

HillSize(doc) ==
    HillSizeLoop(get_special_path_points(doc, "out-run-physics"),
                 EndsOf(get_special_path_points(doc, "hill-size-cross")), 1, 0)

CrossNeverMissed(ip) == FALSE

\* if intersect_point is None: raise
CrossMissed(ip) == ip = None

TmpFiles == {"output/tmp/textures", "output/tmp/textures/texture.png"}

OutputFiles ==
    TmpFiles \cup
    {"output/textures", "output/modes", "output/modes/mode", "output/icon",
     "output/textures/textures.atlas", "output/hill_model.json",
     "output/hill_meta.json", "output/manifest.json"}

effect ==
    /\ epc = "idle"
    /\ epc' = "load_build_info"
    /\ UNCHANGED <<clipVars, sampleVars, utilVars, document, files, error, hillLocals, textureVars>>

load_build_info ==
    /\ epc = "load_build_info"
    /\ epc' = "prepare_paths"
    /\ UNCHANGED <<clipVars, sampleVars, utilVars, document, files, error, hillLocals, textureVars>>

\* the directories of output/, the mode files and the icon
prepare_paths ==
    /\ epc = "prepare_paths"
    /\ files' = (files \ OutputFiles)
                  \cup {"output/textures", "output/modes", "output/tmp/textures",
                        "output/modes/mode", "output/icon"}
    /\ epc' = "add_textures"
    /\ UNCHANGED <<clipVars, sampleVars, utilVars, document, error, hillLocals, textureVars>>

\* one exported png for the texture nodes
add_textures ==
    /\ epc = "add_textures"
    /\ files' = IF document.textures > 0
                THEN files \cup {"output/tmp/textures/texture.png"}
                ELSE files
    /\ textures' = IF document.textures > 0 THEN {"texture"} ELSE {}
    /\ epc' = "pack_textures"
    /\ UNCHANGED <<clipVars, sampleVars, utilVars, document, error, hillLocals, atlas>>

\* the packer's atlas in output/textures; rmtree(output/tmp)
pack_textures ==
    /\ epc = "pack_textures"
    /\ files' = (IF "output/tmp/textures/texture.png" \in files
                 THEN files \cup {"output/textures/textures.atlas"}
                 ELSE files) \ TmpFiles
    /\ atlas' = IF "output/tmp/textures/texture.png" \in files THEN textures ELSE {}
    /\ epc' = "generate_hill_model"
    /\ UNCHANGED <<clipVars, sampleVars, utilVars, document, error, hillLocals, textures>>

\* get_startgate_info, the first call of generate_hill_model: with one
\* start-gate background texture, one foreground texture and one texture
\* position in the drawing, both textures are exported into
\* output/tmp/textures and appended to self.textures
StartGateTextures(doc) ==
    IF doc.start_gate THEN {"start-gate-background", "start-gate-foreground"} ELSE {}

\* the export of a start-gate texture into output/tmp/textures, which
\* pack_textures has removed: Inkscape writes no file; whether the command
\* also fails, and export_texture raises with it, is Inkscape's to decide
generate_hill_model_no_export ==
    /\ epc = "generate_hill_model"
    /\ document.start_gate
    /\ error' = "ProgramRunError"
    /\ epc' = "aborted"
    /\ UNCHANGED <<clipVars, sampleVars, utilVars, document, files, hillLocals, textureVars>>

\* a special path or the viewpoint raises
generate_hill_model_no_special ==
    /\ epc = "generate_hill_model"
    /\ SpecialError(document) # "none"
    /\ error' = SpecialError(document)
    /\ epc' = "aborted"
    /\ textures' = textures \cup StartGateTextures(document)
    /\ UNCHANGED <<clipVars, sampleVars, utilVars, document, files, hillLocals, atlas>>

\* raise Exception('Hill size cross does not cross with out run physic')
generate_hill_model_no_cross ==
    /\ epc = "generate_hill_model"
    /\ SpecialError(document) = "none"
    /\ CrossMissed(HillSize(document).intersect_point)
    /\ out_run_path' = get_special_path_points(document, "out-run-physics")
    /\ hill_size_cross' = EndsOf(get_special_path_points(document, "hill-size-cross"))
    /\ intersect_point' = HillSize(document).intersect_point
    /\ distance' = HillSize(document).distance
    /\ error' = "Exception"
    /\ epc' = "aborted"
    /\ textures' = textures \cup StartGateTextures(document)
    /\ UNCHANGED <<clipVars, sampleVars, utilVars, document, files, atlas>>

\* hill_model.json is written
generate_hill_model ==
    /\ epc = "generate_hill_model"
    /\ SpecialError(document) = "none"
    /\ ~CrossMissed(HillSize(document).intersect_point)
    /\ out_run_path' = get_special_path_points(document, "out-run-physics")
    /\ hill_size_cross' = EndsOf(get_special_path_points(document, "hill-size-cross"))
    /\ intersect_point' = HillSize(document).intersect_point
    /\ distance' = HillSize(document).distance
    /\ files' = files \cup {"output/hill_model.json"}
    /\ epc' = "generate_hill_meta"
    /\ textures' = textures \cup StartGateTextures(document)
    /\ UNCHANGED <<clipVars, sampleVars, utilVars, document, error, atlas>>

generate_hill_meta ==
    /\ epc = "generate_hill_meta"
    /\ files' = files \cup {"output/hill_meta.json"}
    /\ epc' = "generate_manifest"
    /\ UNCHANGED <<clipVars, sampleVars, utilVars, document, error, hillLocals, textureVars>>

generate_manifest ==
    /\ epc = "generate_manifest"
    /\ files' = files \cup {"output/manifest.json"}
    /\ epc' = "zipdir"
    /\ UNCHANGED <<clipVars, sampleVars, utilVars, document, error, hillLocals, textureVars>>

zipdir ==
    /\ epc = "zipdir"
    /\ files' = files \cup {"output.psj"}
    /\ epc' = "rmtree"
    /\ UNCHANGED <<clipVars, sampleVars, utilVars, document, error, hillLocals, textureVars>>

\* rmtree(output)
rmtree ==
    /\ epc = "rmtree"
    /\ files' = files \ OutputFiles
    /\ epc' = "done"
    /\ UNCHANGED <<clipVars, sampleVars, utilVars, document, error, hillLocals, textureVars>>

(***************************************************************************)
(* Drawings: every special element once, a texture and any out-run and     *)
(* cross, or one special element missing or twice, with or without one.    *)
(***************************************************************************)
RunPoints == (0..MaxRunX) \X (0..1)

RunSeqs == UNION {[1..n -> RunPoints] : n \in 0..MaxRun}

\* a cross-section from the lower row to the upper, upright or leaning by one
CrossSeqs ==
    {<<<<ab[1], 0>>, <<ab[2], 1>>>> :
        ab \in {q \in (0..MaxRunX) \X (0..MaxRunX) : Abs(q[1] - q[2]) <= 1}}

EachOnce == [t \in SpecialTypes |-> 1]

Documents ==
    {[special_count |-> EachOnce, out_run |-> r, cross |-> c, textures |-> 1,
      start_gate |-> FALSE] :
        r \in RunSeqs, c \in CrossSeqs}
    \cup
    {[special_count |-> [EachOnce EXCEPT ![t] = k],
      out_run |-> <<<<0, 0>>, <<1, 0>>>>, cross |-> <<<<1, 0>>, <<1, 1>>>>,
      textures |-> n, start_gate |-> FALSE] :
        t \in SpecialTypes, k \in {0, 2}, n \in 0..1}
    \cup
    {[special_count |-> EachOnce,
      out_run |-> <<<<0, 0>>, <<1, 0>>>>, cross |-> <<<<1, 0>>, <<1, 1>>>>,
      textures |-> n, start_gate |-> TRUE] :
        n \in 0..1}

InitEffect ==
    /\ document \in Documents
    /\ files = {}
    /\ epc = "idle"
    /\ error = "none"
    /\ out_run_path = <<>>
    /\ hill_size_cross = <<>>
    /\ intersect_point = <<>>
    /\ distance = 0
    /\ textures = {}
    /\ atlas = {}
    /\ ClipIdle
    /\ SampleIdle
    /\ UtilIdle

NextEffect ==
    \/ effect
    \/ load_build_info
    \/ prepare_paths
    \/ add_textures
    \/ pack_textures
    \/ generate_hill_model_no_export
    \/ generate_hill_model_no_special
    \/ generate_hill_model_no_cross
    \/ generate_hill_model
    \/ generate_hill_meta
    \/ generate_manifest
    \/ zipdir
    \/ rmtree

SpecEffect == InitEffect /\ [][NextEffect]_vars

(***************************************************************************)
(* What a run of effect left behind, read against the drawing.             *)
(***************************************************************************)
\* generate_hill_model has returned or raised
PastHillModel ==
    epc \in {"aborted", "generate_hill_meta", "generate_manifest", "zipdir",
             "rmtree", "done"}

\* some required special element is not there exactly once
SpecialMiscounted == \E t \in SpecialTypes : document.special_count[t] # 1

\* C11: when a required special element (the six special paths and the
\* viewpoint) is missing or duplicated, the run aborts and nothing it made is
\* left: no mode file, icon, texture, json file, directory or archive.
C11_AbortLeavesNothing ==
    (SpecialMiscounted /\ PastHillModel)
        => /\ epc = "aborted"
           /\ files = {}

\* the run aborted on a missing in-run path with the mode files, the icon and
\* the packed textures still under output/
C11_AbortLeavesFiles ==
    /\ epc = "aborted"
    /\ error = "Exception"
    /\ document.special_count["in-run-physics"] = 0
    /\ {"output/modes/mode", "output/icon", "output/textures/textures.atlas"}
           \subseteq files

\* the k-th segment of the out-run path meets the cross-section
Meets(k) ==
    /\ Crossing(out_run_path[k], out_run_path[k + 1],
                hill_size_cross[1], hill_size_cross[2])
    /\ Touching(out_run_path[k], out_run_path[k + 1],
                hill_size_cross[1], hill_size_cross[2])

\* the first k vertices of a path
Upto(vertices, k) == [j \in 1..k |-> vertices[j]]

\* C14: the hill-size path length is the full length of every out-run
\* segment before the first one that meets the cross-section, plus the
\* distance from that segment's start to the point where they meet.
C14_HillSizePathLength ==
    (PastHillModel /\ epc # "aborted")
        => \E k \in 1..(Len(out_run_path) - 1) :
              /\ Meets(k)
              /\ \A j \in 1..(k - 1) : ~Meets(j)
              /\ OnLine(intersect_point, out_run_path[k], out_run_path[k + 1])
              /\ OnLine(intersect_point, hill_size_cross[1], hill_size_cross[2])
              /\ distance = calc_vertices_path_size(Upto(out_run_path, k))
                              + point_point_dst(out_run_path[k], intersect_point)

\* the second segment of the out-run was the first to meet the cross-section,
\* away from its own start
C14_SecondSegmentMeets ==
    /\ epc = "generate_hill_meta"
    /\ Len(out_run_path) = 3
    /\ ~Meets(1)
    /\ Meets(2)
    /\ intersect_point # AsRatio(out_run_path[2])
    /\ intersect_point # AsRatio(out_run_path[3])
    /\ distance > calc_vertices_path_size(Upto(out_run_path, 2))

\* no segment of the sampled out-run meets the cross-section
NoIntersection ==
    \A k \in 1..(Len(document.out_run) - 1) :
        ~(/\ Crossing(document.out_run[k], document.out_run[k + 1],
                      document.cross[1], document.cross[2])
          /\ Touching(document.out_run[k], document.out_run[k + 1],
                      document.cross[1], document.cross[2]))

\* C15: when no segment of the out-run meets the cross-section (an out-run
\* of fewer than 2 points included) the run aborts, and hill_model.json,
\* hill_meta.json, manifest.json and the archive are never written.
C15_NoCrossAborts ==
    NoIntersection
        => /\ files \cap {"output/hill_model.json", "output/hill_meta.json",
                          "output/manifest.json", "output.psj"} = {}
           /\ PastHillModel => epc = "aborted"

\* every special element is there once, the out-run has two segments and
\* neither meets the cross-section: the run aborted
C15_MissedCrossAborted ==
    /\ epc = "aborted"
    /\ ~SpecialMiscounted
    /\ Len(out_run_path) = 3
    /\ intersect_point = None
    /\ distance > 0

(***************************************************************************)
(* The triangulator and the two flattening loops on cells handed to them   *)
(* directly, a ring without area among the rings.                          *)
(***************************************************************************)
MaxRings == 2
MaxCells == 2

SquareRing == <<<<0, 0, Red>>, <<1, 0, Red>>, <<1, 1, Red>>, <<0, 1, Red>>>>
TriangleRing == <<<<1, 1, Blue>>, <<3, 1, Blue>>, <<1, 2, Blue>>>>
\* three points on one line: no vertex of it is an ear
SliverRing == <<<<0, 2, Red>>, <<1, 2, Red>>, <<2, 2, Red>>>>

RingShapes == {SquareRing, TriangleRing, SliverRing}

RingSeqs == UNION {[1..n -> RingShapes] : n \in 0..MaxRings}

CellOf(rings) ==
    [boundingBoxX |-> 0, boundingBoxY |-> 0,
     boundingBoxWidth |-> 3, boundingBoxHeight |-> 3, vertices |-> rings]

CellSeqs == UNION {[1..n -> {CellOf(rings) : rings \in RingSeqs}] : n \in 1..MaxCells}

InitMesh ==
    /\ util_in \in CellSeqs
    /\ util_op = "none"
    /\ util_out = <<>>
    /\ ClipIdle
    /\ SampleIdle
    /\ EffectIdle

\* psjhill_exporter.py:100-112 on the cells
MeshOfShape ==
    /\ util_op = "none"
    /\ util_op' = "shape"
    /\ util_out' = ShapeMesh(util_in)
    /\ UNCHANGED <<clipVars, sampleVars, util_in, effectVars>>

\* psjhill_exporter.py:143-162 on the cells
MeshOfShapeGroup ==
    /\ util_op = "none"
    /\ util_op' = "shape-group"
    /\ util_out' = GroupMesh(util_in)
    /\ UNCHANGED <<clipVars, sampleVars, util_in, effectVars>>

NextMesh ==
    \/ MeshOfShape
    \/ MeshOfShapeGroup

SpecMesh == InitMesh /\ [][NextMesh]_vars

\* ear clipping did not reduce the ring to triangles
Unreduced(ring) == Len(earclip(Points(ring))) < Len(ring) - 2

\* the cells without the rings ear clipping cannot reduce
WithoutUnreduced(cells) ==
    [c \in 1..Len(cells) |->
        [cells[c] EXCEPT !.vertices = SelectSeq(cells[c].vertices,
                                                LAMBDA ring : ~Unreduced(ring))]]

\* C12: a ring that ear clipping cannot reduce adds neither vertices nor index
\* triples to its cell's mesh; every cell comes out as if that ring were not
\* among its rings.
C12_UnreducedRingAddsNothing ==
    /\ util_op = "shape" => util_out = ShapeMesh(WithoutUnreduced(util_in))
    /\ util_op = "shape-group" => util_out = GroupMesh(WithoutUnreduced(util_in))

\* a shape-group cell of the ring without area and a triangle: six vertices
\* in the buffer, the one triple pointing past the first three
C12_OrphanVertices ==
    /\ util_op = "shape-group"
    /\ util_in = <<CellOf(<<SliverRing, TriangleRing>>)>>
    /\ Len(util_out[1].vertices) = 6
    /\ Len(util_out[1].indicies) = 1
    /\ \A k \in 1..3 : util_out[1].indicies[1][k] \in 3..5

(***************************************************************************)
(* A shape and a shape-group whose shape-cut-enabled is "false".           *)
(***************************************************************************)
CutDisabledGridSize == 100000

\* if cut_enabled is False: cut_grid_size = 100000
CutGridSize(cut_enabled, cut_grid_size) ==
    IF ~cut_enabled THEN CutDisabledGridSize ELSE cut_grid_size

\* a strip one unit longer than the grid size of a disabled cut
WideRect ==
    <<<<0, 0, Red>>, <<CutDisabledGridSize + 1, 0, Red>>,
      <<CutDisabledGridSize + 1, 1, Red>>, <<0, 1, Red>>>>

UncutShapes == Shapes \cup {WideRect}

InitUncut ==
    /\ polygons \in UNION {[1..n -> UncutShapes] : n \in 1..MaxPolys}
    /\ bounding_box = BBoxOfAll(polygons)
    /\ grid_size \in 2..MaxGrid
    /\ optimize = TRUE
    /\ op = "none"
    /\ result = <<>>
    /\ LoopIdle
    /\ SampleIdle
    /\ UtilIdle
    /\ EffectIdle

ExportShapeCutDisabled ==
    /\ op = "none"
    /\ Len(polygons) = 1
    /\ result' = ShapeSubShapes(polygons[1], bounding_box,
                                CutGridSize(FALSE, grid_size))
    /\ op' = "shape"
    /\ UNCHANGED <<clipInputs, loopVars, sampleVars, utilVars, effectVars>>

ExportShapeGroupCutDisabled ==
    /\ op = "none"
    /\ result' = GroupSubShapes(polygons, bounding_box,
                                CutGridSize(FALSE, grid_size))
    /\ op' = "shape-group"
    /\ UNCHANGED <<clipInputs, loopVars, sampleVars, utilVars, effectVars>>

NextUncut ==
    \/ ExportShapeCutDisabled
    \/ ExportShapeGroupCutDisabled

SpecUncut == InitUncut /\ [][NextUncut]_vars

\* C13: with the cut disabled a shape or shape-group of any width and height
\* comes out as at most one cell, and that cell's rectangle is the bounding
\* box.
C13_CutDisabledOneCell ==
    op # "none"
        => /\ Len(result) <= 1
           /\ \A c \in 1..Len(result) :
                 /\ result[c].boundingBoxX = bounding_box.left
                 /\ result[c].boundingBoxY = bounding_box.top
                 /\ result[c].boundingBoxWidth = bounding_box.width
                 /\ result[c].boundingBoxHeight = bounding_box.height

\* the strip came out as two cells, the second one unit wide
C13_StripInTwoCells ==
    /\ op = "shape"
    /\ polygons = <<WideRect>>
    /\ Len(result) = 2
    /\ result[1].boundingBoxWidth = CutDisabledGridSize
    /\ result[2].boundingBoxX = CutDisabledGridSize
    /\ result[2].boundingBoxWidth = 1

(***************************************************************************)
(* The clipping example: a 10 x 10 square on a grid of 5.                  *)
(***************************************************************************)
TenSquareClipped ==
    /\ op = "clip_polygon"
    /\ polygons = <<TenSquare>>
    /\ bounding_box = TenSquareBox
    /\ grid_size = TenSquareGrid

\* the corners of a cell record, as the set of its points
CornersOf(cell) ==
    {<<cell.boundingBoxX + dx, cell.boundingBoxY + dy>> :
        dx \in {0, cell.boundingBoxWidth}, dy \in {0, cell.boundingBoxHeight}}

\* the ring is the outline of the cell: its four corners, each once
IsCellSquare(ring, cell) ==
    /\ Len(ring) = 4
    /\ {<<ring[k][1], ring[k][2]>> : k \in 1..Len(ring)} = CornersOf(cell)

\* C17: clipping the square (0,0),(10,0),(10,10),(0,10) against the bounding
\* box (0,0,10,10) with grid_size 5 yields exactly 4 cells, with origins
\* (0,0),(0,5),(5,0),(5,5) and size 5 x 5, each holding exactly one ring, and
\* that ring is the cell's own 5 x 5 square.
C17_TenSquareFourCells ==
    TenSquareClipped =>
        /\ Len(result) = 4
        /\ [c \in 1..Len(result) |-> <<result[c].boundingBoxX, result[c].boundingBoxY>>]
               = <<<<0, 0>>, <<0, 5>>, <<5, 0>>, <<5, 5>>>>
        /\ \A c \in 1..Len(result) :
               /\ result[c].boundingBoxWidth = 5
               /\ result[c].boundingBoxHeight = 5
               /\ Len(result[c].vertices) = 1
               /\ IsCellSquare(result[c].vertices[1], result[c])

\* the example has been clipped with every cell kept, empty or not
C17_TenSquareClippedUnoptimized ==
    /\ TenSquareClipped
    /\ ~optimize
    /\ Len(result) = 4

(***************************************************************************)
(* The clipper on coordinates that are not whole: the drawn coordinates    *)
(* are whole thirds of a unit, and a third is not a whole number of        *)
(* scaled units.  The bounding box is no larger than one grid cell, so     *)
(* both loops of clip_polygon run once.  A returned cell is written in     *)
(* units of 1 / (Thirds * SCALING_FACTOR), in which the cell's rectangle   *)
(* and the coordinates scaled back are both whole.                         *)
(***************************************************************************)
MaxFine == 3

Thirds == 3

\* scale_to_clipper on one coordinate of n thirds: the product with the
\* scaling factor converted to the clipper's integer, which cuts towards zero
ScaledInt(n) ==
    IF n >= 0 THEN (n * SCALING_FACTOR) \div Thirds
    ELSE -(((-n) * SCALING_FACTOR) \div Thirds)

scale_thirds_to_clipper(path) ==
    [k \in 1..Len(path) |-> <<ScaledInt(path[k][1]), ScaledInt(path[k][2])>>]

\* scale_from_clipper: a scaled integer c is the coordinate c / SCALING_FACTOR,
\* which is c * Thirds of the units a returned cell is written in
scale_from_clipper_fine(paths) ==
    [r \in 1..Len(paths) |->
        [k \in 1..Len(paths[r]) |->
            <<paths[r][k][1] * Thirds, paths[r][k][2] * Thirds>>]]

\* the solution of the cell (x, y)-(x2, y2), with the colour appended
FineSolution(vertices, x, y, x2, y2) ==
    LET solution == scale_from_clipper_fine(
                        Execute(scale_thirds_to_clipper(ClipPath(x, y, x2, y2)),
                                scale_thirds_to_clipper(Points(vertices))))
    IN [r \in 1..Len(solution) |->
           [k \in 1..Len(solution[r]) |->
               <<solution[r][k][1], solution[r][k][2], vertices[1][3]>>]]

\* the cell record of the only cell: the bounding box itself
FineCell(vertices, bb) ==
    [boundingBoxX |-> bb.left * SCALING_FACTOR,
     boundingBoxY |-> bb.top * SCALING_FACTOR,
     boundingBoxWidth |-> bb.width * SCALING_FACTOR,
     boundingBoxHeight |-> bb.height * SCALING_FACTOR,
     vertices |-> FineSolution(vertices, bb.left, bb.top,
                               bb.left + bb.width, bb.top + bb.height)]

\* clip_polygon when grid_size is at least the width and the height
clip_polygon_one_cell(vertices, bb, opt) ==
    LET cell == FineCell(vertices, bb)
    IN IF KeepCell(cell, opt) THEN <<cell>> ELSE <<>>

RECURSIVE MergeRestOneCell(_, _, _, _)
MergeRestOneCell(output1, polys, k, bb) ==
    IF k > Len(polys) THEN output1
    ELSE MergeRestOneCell(MergeInto(output1, clip_polygon_one_cell(polys[k], bb, FALSE)),
                          polys, k + 1, bb)

\* clip_polygons when grid_size is at least the width and the height
clip_polygons_one_cell(polys, bb) ==
    SelectSeq(MergeRestOneCell(clip_polygon_one_cell(polys[1], bb, FALSE), polys, 2, bb),
              LAMBDA val : Len(val.vertices) > 0)

\* the rectangle (x, y)-(x2, y2) in thirds
FineRect(x, y, x2, y2, colour) ==
    <<<<x, y, colour>>, <<x2, y, colour>>, <<x2, y2, colour>>, <<x, y2, colour>>>>

FineShapes ==
    {FineRect(1, 1, 10, 7, Red), FineRect(-4, -4, 5, 5, Blue), FineRect(-7, -7, 11, 11, Red)}

FinePolygonSeqs == UNION {[1..n -> FineShapes] : n \in 1..MaxPolys}

FineBoxes ==
    {[left |-> l, top |-> t, width |-> w, height |-> h] :
        l \in (-2)..2, t \in (-2)..2, w \in 2..MaxFine, h \in 2..MaxFine}

InitScale ==
    /\ polygons \in FinePolygonSeqs
    /\ bounding_box \in FineBoxes
    /\ grid_size = MaxFine
    /\ optimize = TRUE
    /\ op = "none"
    /\ result = <<>>
    /\ LoopIdle
    /\ SampleIdle
    /\ UtilIdle
    /\ EffectIdle

CallClipPolygonOneCell ==
    /\ op = "none"
    /\ Len(polygons) = 1
    /\ \E o \in BOOLEAN :
        /\ optimize' = o
        /\ result' = clip_polygon_one_cell(polygons[1], bounding_box, o)
    /\ op' = "clip_polygon"
    /\ UNCHANGED <<polygons, bounding_box, grid_size, loopVars, sampleVars, utilVars, effectVars>>

CallClipPolygonsOneCell ==
    /\ op = "none"
    /\ result' = clip_polygons_one_cell(polygons, bounding_box)
    /\ op' = "clip_polygons"
    /\ UNCHANGED <<clipInputs, loopVars, sampleVars, utilVars, effectVars>>

NextScale ==
    \/ CallClipPolygonOneCell
    \/ CallClipPolygonsOneCell

SpecScale == InitScale /\ [][NextScale]_vars

Clipping == op \in {"clip_polygon", "clip_polygons"}

\* every coordinate of the ring is at most `slack` outside the cell's rectangle
RingNearCell(ring, cell, slack) ==
    \A k \in 1..Len(ring) :
        /\ cell.boundingBoxX - slack <= ring[k][1]
        /\ ring[k][1] <= cell.boundingBoxX + cell.boundingBoxWidth + slack
        /\ cell.boundingBoxY - slack <= ring[k][2]
        /\ ring[k][2] <= cell.boundingBoxY + cell.boundingBoxHeight + slack

\* C18, as stated: every vertex of every ring returned in a cell by
\* clip_polygon or clip_polygons lies within the closed rectangle of the cell
\* record that owns it.
C18_RingsInsideCell ==
    Clipping =>
        \A c \in 1..Len(result) :
            \A r \in 1..Len(result[c].vertices) :
                RingInCell(result[c].vertices[r], result[c])

\* C18, amended: every vertex of every ring returned in a cell by clip_polygon
\* or clip_polygons lies within the cell's rectangle enlarged by one scaled
\* unit (1 / SCALING_FACTOR) on every side.
C18_RingsInsideCellToResolution ==
    Clipping =>
        \A c \in 1..Len(result) :
            \A r \in 1..Len(result[c].vertices) :
                RingNearCell(result[c].vertices[r], result[c], Thirds)

\* a merged cell holding a ring with a vertex outside the cell's rectangle
C18_VertexOutsideCell ==
    /\ op = "clip_polygons"
    /\ \E c \in 1..Len(result) :
           \E r \in 1..Len(result[c].vertices) :
               ~RingInCell(result[c].vertices[r], result[c])

(***************************************************************************)
(* The colours of the clipped rings.                                       *)
(***************************************************************************)
\* the unit squares of the cell that the ring encloses
RingSquares(ring, cell) == {u \in CellSquares(cell) : InsideSome(<<ring>>, u)}

\* the ring encloses a part of the polygon and has the polygon's colour throughout
ClippedFrom(ring, cell, polygon) ==
    /\ \A u \in RingSquares(ring, cell) : InsideSome(<<polygon>>, u)
    /\ \A k \in 1..Len(ring) : ring[k][3] = polygon[1][3]

Overlaps(polygon, cell) == \E u \in CellSquares(cell) : InsideSome(<<polygon>>, u)

\* the rings of the cell can be handed out to the polygons in the polygons' order,
\* every ring to a polygon it was clipped from, every overlapping polygon served
RingsByPolygon(cell, polys) ==
    \E f \in [1..Len(cell.vertices) -> 1..Len(polys)] :
        /\ \A r \in 1..Len(cell.vertices) :
               /\ r > 1 => f[r - 1] <= f[r]
               /\ ClippedFrom(cell.vertices[r], cell, polys[f[r]])
        /\ \A i \in 1..Len(polys) :
               Overlaps(polys[i], cell) => \E r \in 1..Len(cell.vertices) : f[r] = i

\* C19: every output vertex of clip_polygon carries the colour of the input
\* polygon; in a clip_polygons result every vertex of a ring carries the colour
\* of the polygon that ring was clipped from, so rings of differently coloured
\* shapes in one cell keep their own colours; all vertices of one ring share
\* one colour.
C19_ColoursInherited ==
    /\ op = "clip_polygon" =>
           \A c \in 1..Len(result) :
               \A r \in 1..Len(result[c].vertices) :
                   \A k \in 1..Len(result[c].vertices[r]) :
                       result[c].vertices[r][k][3] = polygons[1][1][3]
    /\ op = "clip_polygons" =>
           \A c \in 1..Len(result) : RingsByPolygon(result[c], polygons)

\* a merged cell that holds a red ring and a blue ring
C19_TwoColoursInOneCell ==
    /\ op = "clip_polygons"
    /\ \E c \in 1..Len(result) :
           \E r1, r2 \in 1..Len(result[c].vertices) :
               /\ result[c].vertices[r1][1][3] = Red
               /\ result[c].vertices[r2][1][3] = Blue

(***************************************************************************)
(* The range of the exported index triples.                                *)
(***************************************************************************)
Exported == op \in {"shape", "shape-group"}

\* every component of the triple is a position of the buffer, counted from 0
TripleInBuffer(triple, buffer) ==
    \A j \in 1..3 : triple[j] \in 0..(Len(buffer) - 1)

\* C20: in every exported cell mesh, every component of every index triple is
\* an integer i with 0 <= i < the number of vertices in that same cell's
\* vertex buffer: no triple points past the end of the buffer.
C20_IndicesInsideBuffer ==
    Exported =>
        \A c \in 1..Len(result) :
            \A t \in 1..Len(result[c].indicies) :
                TripleInBuffer(result[c].indicies[t], result[c].vertices)

\* a shape-group cell of more than one ring with a triple on the buffer's last vertex
C20_TripleOnLastVertex ==
    /\ op = "shape-group"
    /\ \E c \in 1..Len(result) :
           /\ Len(result[c].vertices) > 4
           /\ \E t \in 1..Len(result[c].indicies) :
                  \E j \in 1..3 : result[c].indicies[t][j] = Len(result[c].vertices) - 1

(***************************************************************************)
(* The triangulator on one ring: outlines of 3 to 6 points, started at     *)
(* every vertex, in both windings, at several places.                      *)
(***************************************************************************)
MaxShift == 1

TriangleOutline == <<<<0, 0>>, <<2, 0>>, <<0, 1>>>>

SquareOutline == <<<<0, 0>>, <<2, 0>>, <<2, 2>>, <<0, 2>>>>

\* a convex pentagon
PentagonOutline == <<<<0, 0>>, <<2, 0>>, <<3, 1>>, <<2, 3>>, <<0, 2>>>>

\* an L: not convex at (1, 1)
LOutline == <<<<0, 0>>, <<2, 0>>, <<2, 1>>, <<1, 1>>, <<1, 2>>, <<0, 2>>>>

Outlines == {TriangleOutline, SquareOutline, PentagonOutline, LOutline}

\* the same closed outline started k points later
Rotated(s, k) == [j \in 1..Len(s) |-> s[((j + k - 1) % Len(s)) + 1]]

Windings ==
    UNION {{Rotated(o, k), Reverse(Rotated(o, k))} : o \in Outlines, k \in 0..5}

\* the ring of an outline moved by (dx, dy), every vertex with the colour
RingAt(o, dx, dy, colour) ==
    [j \in 1..Len(o) |-> <<o[j][1] + dx, o[j][2] + dy, colour>>]

AreaRings ==
    {RingAt(o, dx, dy, Red) : o \in Windings, dx \in 0..MaxShift, dy \in 0..MaxShift}

InitRing ==
    /\ util_in \in {<<CellOf(<<ring>>)>> : ring \in AreaRings}
    /\ util_op = "none"
    /\ util_out = <<>>
    /\ ClipIdle
    /\ SampleIdle
    /\ EffectIdle

\* triangulator.py:3-18 on the one cell
TriangulateRing ==
    /\ util_op = "none"
    /\ util_op' = "triangulate"
    /\ util_out' = triangulate_polygon(util_in)
    /\ UNCHANGED <<clipVars, sampleVars, util_in, effectVars>>

NextRing == TriangulateRing

SpecRing == InitRing /\ [][NextRing]_vars

\* twice the shoelace area of the ring from edge k on: positive when the ring
\* turns left all the way round
RECURSIVE Shoelace2(_, _)
Shoelace2(ring, k) ==
    IF k > Len(ring) THEN 0
    ELSE EdgeFrom(ring, k)[1] * EdgeTo(ring, k)[2]
             - EdgeTo(ring, k)[1] * EdgeFrom(ring, k)[2]
         + Shoelace2(ring, k + 1)

\* twice the signed area of the triangles from triple t on, each triple read as
\* 0-based positions of the ring
RECURSIVE TrianglesArea2(_, _, _)
TrianglesArea2(ring, indicies, t) ==
    IF t > Len(indicies) THEN 0
    ELSE Shoelace2(<<ring[indicies[t][1] + 1],
                     ring[indicies[t][2] + 1],
                     ring[indicies[t][3] + 1]>>, 1)
         + TrianglesArea2(ring, indicies, t + 1)

\* every corner of the ring turns the same way, none is flat
IsConvexRing(ring) ==
    \/ \A k \in 1..Len(ring) : TriangleSum(PrevPoint(ring, k), ring[k], NextPoint(ring, k)) < 0
    \/ \A k \in 1..Len(ring) : TriangleSum(PrevPoint(ring, k), ring[k], NextPoint(ring, k)) > 0

Triangulated == util_op = "triangulate"

MaxNodes == 2

\* the for loop over range(nodes_between) from node on: the points at the
\* fractions (node+1) / (nodes_between+1) of the segment's length
RECURSIVE NodesBetween(_, _, _)
NodesBetween(bez, node, n) ==
    IF node >= n THEN <<>>
    ELSE <<bezierpointatt(bez, beziertatlength(bez, <<node + 1, n + 1>>))>>
         \o NodesBetween(bez, node + 1, n)

\* points = []; i = 1
CountEnter ==
    /\ spc = "count-idle"
    /\ points_out' = <<>>
    /\ seg_i' = 1
    /\ spc' = "count-segment"
    /\ UNCHANGED <<clipVars, sampleInputs, point_length, dst_to_next_point,
                 length_left, utilVars, effectVars>>

\* CountSegmentPoints with the points between in decreasing order
CountSegmentPointsDescending(bez, last) ==
    <<bezierpointatt(bez, <<0, 1>>)>> \o Reverse(NodesBetween(bez, 0, nodes_between))
        \o (IF add_last /\ last THEN <<bezierpointatt(bez, <<1, 1>>)>> ELSE <<>>)

\* CountSegmentPoints appending the last segment's end point whatever add_last says
CountSegmentPointsAlways(bez, last) ==
    <<bezierpointatt(bez, <<0, 1>>)>> \o NodesBetween(bez, 0, nodes_between)
        \o (IF last THEN <<bezierpointatt(bez, <<1, 1>>)>> ELSE <<>>)

\* the points one round of the while loop appends: the segment's start, the
\* points between, and the end point if add_last and i == len(csp_sub)
CountSegmentPoints(bez, last) ==
    <<bezierpointatt(bez, <<0, 1>>)>> \o NodesBetween(bez, 0, nodes_between)
        \o (IF add_last /\ last THEN <<bezierpointatt(bez, <<1, 1>>)>> ELSE <<>>)

\* one round of the while loop
CountSegment ==
    /\ spc = "count-segment"
    /\ seg_i <= Len(csp_sub) - 1
    /\ points_out' = points_out \o CountSegmentPoints(CurrentBez, seg_i + 1 = Len(csp_sub))
    /\ seg_i' = seg_i + 1
    /\ UNCHANGED <<clipVars, sampleInputs, point_length, dst_to_next_point,
                 length_left, spc, utilVars, effectVars>>

\* the while test fails: return points
CountReturn ==
    /\ spc = "count-segment"
    /\ ~(seg_i <= Len(csp_sub) - 1)
    /\ spc' = "count-returned"
    /\ UNCHANGED <<clipVars, sampleInputs, seg_i, point_length, dst_to_next_point,
                 length_left, points_out, utilVars, effectVars>>

\* the sub-paths handed over: the chains, and a sub-path with no node at all
SubPaths == {NodesOf(segs) : segs \in SegmentSeqs} \cup {<<>>}

InitCount ==
    /\ csp_sub \in SubPaths
    /\ point_dst = 0
    /\ nodes_between \in 0..MaxNodes
    /\ add_last \in BOOLEAN
    /\ seg_i = 0
    /\ point_length = 0
    /\ dst_to_next_point = 0
    /\ length_left = 0
    /\ points_out = <<>>
    /\ spc = "count-idle"
    /\ ClipIdle
    /\ UtilIdle
    /\ EffectIdle

NextCount ==
    \/ CountEnter
    \/ CountSegment
    \/ CountReturn

SpecCount == InitCount /\ [][NextCount]_vars

\* csp_sub_points_dst on the same sub-paths
InitDistance ==
    /\ csp_sub \in SubPaths
    /\ point_dst \in Spacings
    /\ nodes_between = 0
    /\ add_last \in BOOLEAN
    /\ seg_i = 0
    /\ point_length = 0
    /\ dst_to_next_point = 0
    /\ length_left = 0
    /\ points_out = <<>>
    /\ spc = "idle"
    /\ ClipIdle
    /\ UtilIdle
    /\ EffectIdle

InitSampling == InitDistance \/ InitCount

NextSampling ==
    \/ SampleEnter
    \/ SampleSegment
    \/ SampleWalk
    \/ SampleWalkExit
    \/ SampleAdvance
    \/ SampleReturn
    \/ CountEnter
    \/ CountSegment
    \/ CountReturn

SpecSampling == InitSampling /\ [][NextSampling]_vars

\* either function has returned
SamplingDone == spc \in {"returned", "count-returned"}

\* the number of segments of the sub-path
Segments == IF Len(csp_sub) = 0 THEN 0 ELSE Len(csp_sub) - 1

\* the start points of the segments, in chain order
SegmentStarts == [k \in 1..Segments |-> csp_sub[k].arc]

\* how often the point occurs in the sequence
Occurrences(s, p) == Cardinality({k \in 1..Len(s) : s[k] = p})

\* C22: for both sampling policies, on a chain of m >= 1 segments the output
\* holds the start point of every segment, in chain order, and the chain's
\* final endpoint is emitted, once and as the last point, if and only if
\* add_last is set; a chain with no segments yields the empty sequence
\* whatever add_last is.
C22_StartsAndLast ==
    SamplingDone =>
        /\ Segments = 0 => points_out = <<>>
        /\ Segments >= 1 =>
               /\ SelectSeq(points_out, LAMBDA p : p \in Range(SegmentStarts))
                      = SegmentStarts
               /\ add_last =>
                      /\ points_out[Len(points_out)] = csp_sub[Len(csp_sub)].arc
                      /\ Occurrences(points_out, csp_sub[Len(csp_sub)].arc) = 1
               /\ ~add_last => csp_sub[Len(csp_sub)].arc \notin Range(points_out)

\* two segments sampled by count with add_last: both starts, then the end
C22_TwoSegmentsByCount ==
    /\ spc = "count-returned"
    /\ Segments = 2
    /\ add_last
    /\ nodes_between > 0
    /\ points_out[Len(points_out)] = csp_sub[3].arc

\* C23: sampling by count with n >= 0 emits for each segment its start point
\* followed by n interior points at the arc-length fractions k/(n+1),
\* k = 1..n in increasing k: a chain of m segments yields m*(n+1) points,
\* plus one when add_last is set and m >= 1.
C23_CountPerSegment ==
    spc = "count-returned" =>
        LET n == nodes_between
            fraction(k, j) == csp_sub[k].arc + (j * bezierlength(SegmentAt(k))) \div (n + 1)
        IN /\ Len(points_out)
                  = Segments * (n + 1) + (IF add_last /\ Segments >= 1 THEN 1 ELSE 0)
           /\ \A k \in 1..Segments : \A j \in 0..n :
                  points_out[(k - 1) * (n + 1) + j + 1] = fraction(k, j)

\* one segment of ten units with two points between and no end: 0, 3.333, 6.666
C23_ThirdsOfTen ==
    /\ spc = "count-returned"
    /\ csp_sub = NodesOf(<<StraightTen>>)
    /\ nodes_between = 2
    /\ ~add_last
    /\ points_out = <<0, 3333, 6666>>

(***************************************************************************)
(* util.calc_vertices_path_size on point sequences of every length from 0  *)
(***************************************************************************)
ShortPointSeqs == UNION {[1..n -> PathPoints] : n \in 0..MaxPoints}

InitLength ==
    /\ util_in \in ShortPointSeqs
    /\ util_op = "none"
    /\ util_out = <<>>
    /\ ClipIdle
    /\ SampleIdle
    /\ EffectIdle

CallCalcVerticesPathSize ==
    /\ util_op = "none"
    /\ util_op' = "calc_vertices_path_size"
    /\ util_out' = calc_vertices_path_size(util_in)
    /\ UNCHANGED <<clipVars, sampleVars, util_in, effectVars>>

NextLength == CallCalcVerticesPathSize

SpecLength == InitLength /\ [][NextLength]_vars

\* the Euclidean distance of two points with whole coordinates, in thousandths
Euclid(p, q) ==
    Sqrt(((p[1] - q[1]) * (p[1] - q[1]) + (p[2] - q[2]) * (p[2] - q[2])) * 1000 * 1000)

\* the distances between neighbours, summed from the front
RECURSIVE NeighbourDistances(_)
NeighbourDistances(s) ==
    IF Len(s) < 2 THEN 0 ELSE Euclid(s[1], s[2]) + NeighbourDistances(Tail(s))

\* C24: calc_vertices_path_size returns the sum of the Euclidean distances
\* between each pair of consecutive points of the sequence, and 0 for a
\* sequence of fewer than 2 points.
C24_PathLength ==
    util_op = "calc_vertices_path_size" =>
        /\ util_out = NeighbourDistances(util_in)
        /\ Len(util_in) < 2 => util_out = 0

\* the path (0,0), (2,0), (2,1), 3 units long, and a single point, 0 long
C24_ThreeUnits ==
    /\ util_op = "calc_vertices_path_size"
    /\ util_in = <<<<0, 0>>, <<2, 0>>, <<2, 1>>>>
    /\ util_out = 3000

(***************************************************************************)
(* The arguments of the geometry stages after the call.  A Python list or  *)
(* dict handed to a function is the caller's own object: what the function *)
(* writes into it the caller sees.  `polygons` and `bounding_box` are the  *)
(* arguments of the clipper, `result` is the list the clipper returned and *)
(* the caller hands on to triangulate_polygon.                             *)
(***************************************************************************)
\* clip_polygon(vertices, bounding_box, grid_size, optimize): it reads
\* vertices and bounding_box and appends only to points of its own solution
PureClipPolygon ==
    /\ op = "none"
    /\ Len(polygons) = 1
    /\ \E o \in BOOLEAN :
        /\ optimize' = o
        /\ result' = clip_polygon(polygons[1], bounding_box, grid_size, o)
    /\ op' = "clip_polygon"
    /\ UNCHANGED <<polygons, bounding_box, grid_size, loopVars, sampleVars, utilVars, effectVars>>

\* clip_polygons(polygons, bounding_box, grid_size): it appends only to output1
PureClipPolygons ==
    /\ op = "none"
    /\ result' = clip_polygons(polygons, bounding_box, grid_size)
    /\ op' = "clip_polygons"
    /\ UNCHANGED <<clipInputs, loopVars, sampleVars, utilVars, effectVars>>

\* triangulate_polygon(polygon) on the clipper's list: del clip['vertices'] and
\* clip['objects'] = new_object on every cell of the list handed in, and
\* return polygon, the same list
TriangulateInPlace ==
    /\ op \in {"clip_polygon", "clip_polygons"}
    /\ util_op = "none"
    /\ util_in' = result
    /\ result' = triangulate_polygon(result)
    /\ util_out' = triangulate_polygon(result)
    /\ util_op' = "triangulate_polygon"
    /\ UNCHANGED <<clipInputs, op, loopVars, sampleVars, effectVars>>

NextPure ==
    \/ PureClipPolygon
    \/ PureClipPolygons
    \/ TriangulateInPlace

SpecPure == InitClip /\ [][NextPure]_vars

\* C25: the geometry stages are pure: clip_polygon, clip_polygons and
\* triangulate_polygon leave their arguments as they were (the vertex lists,
\* and the clip-result list handed to the triangulator) and return newly
\* built structures.
C25_ArgumentsUnchanged ==
    [][/\ (op = "none" /\ op' # "none") =>
              /\ polygons' = polygons
              /\ bounding_box' = bounding_box
       /\ (util_op = "none" /\ util_op' = "triangulate_polygon") =>
              result' = result]_vars

\* the clipper's list after the triangulator ran: the list handed in (kept in
\* util_in as it was) had 'vertices', now its cells have 'objects' instead and
\* are what was returned
C25_ClipResultRewritten ==
    /\ util_op = "triangulate_polygon"
    /\ Len(util_in) > 0
    /\ result # util_in
    /\ result = util_out
    /\ "vertices" \notin DOMAIN result[1]
    /\ "objects" \in DOMAIN result[1]

(***************************************************************************)
(* The textures exported and the textures packed.                          *)
(***************************************************************************)
\* pack_textures has run: the atlas is what it is going to be
PastPacking ==
    epc \notin {"idle", "load_build_info", "prepare_paths", "add_textures", "pack_textures"}

\* C26: every texture export into the temporary texture directory happens
\* before texture packing: once pack_textures has run there is no texture id
\* in self.textures, the start-gate textures included, that was not in the
\* directory packed into the atlas.
C26_ExportsBeforePacking ==
    PastPacking => textures \subseteq atlas

\* a finished run whose start-gate textures were exported after the packing
C26_StartGateNotPacked ==
    /\ epc = "done"
    /\ document.start_gate
    /\ "start-gate-foreground" \in textures
    /\ "start-gate-foreground" \notin atlas
    /\ "output/tmp/textures" \notin files

(***************************************************************************)
(* generate_hill_model: the layers split by type and sorted.  layer_num is *)
(* the attribute as get_psjhill_attrib returns it, a string: it is written *)
(* here as the sequence of its digits, and compared as Python compares     *)
(* strings.                                                                *)
(***************************************************************************)
MaxLayers == 2

\* the layer-num attributes "1", "2" and "10"
LayerNums == {<<1>>, <<2>>, <<1, 0>>}

\* layer_type and the key of split_layers it goes to
LayerKeys ==
    [BACKGROUND |-> "background", HILL_BODY |-> "hillBody",
     HILL_BACKGROUND |-> "hillBackground", HILL_FOREGROUND |-> "hillForeground",
     FOREGROUND |-> "foreground"]

\* a < b for two strings: the first differing character decides, a proper
\* prefix is smaller
RECURSIVE StrLess(_, _)
StrLess(a, b) ==
    IF b = <<>> THEN FALSE
    ELSE IF a = <<>> THEN TRUE
    ELSE IF Head(a) # Head(b) THEN Head(a) < Head(b)
    ELSE StrLess(Tail(a), Tail(b))

\* sorted(layers, key=lambda x: x['layer_num']) from the k-th layer on: every
\* layer goes behind the layers already placed whose key is not greater
RECURSIVE SortedByLayerNum(_, _, _)
SortedByLayerNum(done, layers, k) ==
    IF k > Len(layers) THEN done
    ELSE LET x == layers[k]
             before == SelectSeq(done, LAMBDA y : ~StrLess(x.layer_num, y.layer_num))
             after == SelectSeq(done, LAMBDA y : StrLess(x.layer_num, y.layer_num))
         IN SortedByLayerNum(before \o <<x>> \o after, layers, k + 1)

\* del layer['layer_num']; del layer['layer_type']
Stripped(layers) == [k \in 1..Len(layers) |-> [name |-> layers[k].name]]

\* split_layers after the loop over its keys
split_layers(layers) ==
    [key \in {LayerKeys[t] : t \in DOMAIN LayerKeys} |->
        Stripped(SortedByLayerNum(<<>>,
                     SelectSeq(layers, LAMBDA x : LayerKeys[x.layer_type] = key), 1))]

\* the layers recursively_iterate collected, in document order; the name of a
\* layer is its place in the document
LayerLists ==
    UNION {{[k \in 1..n |-> [layer_num |-> nums[k], layer_type |-> types[k], name |-> k]] :
               nums \in [1..n -> LayerNums], types \in [1..n -> DOMAIN LayerKeys]} :
           n \in 0..MaxLayers}

InitLayers ==
    /\ util_in \in LayerLists
    /\ util_op = "none"
    /\ util_out = <<>>
    /\ ClipIdle
    /\ SampleIdle
    /\ EffectIdle

SplitLayers ==
    /\ util_op = "none"
    /\ util_op' = "split_layers"
    /\ util_out' = split_layers(util_in)
    /\ UNCHANGED <<clipVars, sampleVars, util_in, effectVars>>

NextLayers == SplitLayers

SpecLayers == InitLayers /\ [][NextLayers]_vars

\* the number the digits stand for
RECURSIVE NumericValue(_)
NumericValue(digits) ==
    IF digits = <<>> THEN 0
    ELSE NumericValue(SubSeq(digits, 1, Len(digits) - 1)) * 10 + digits[Len(digits)]

\* the numeric layer-num of the exported layer, found by its name
LayerNumOf(layer) == NumericValue(util_in[layer.name].layer_num)

\* C27: within each layer-type bucket of the exported hill model the layers
\* appear in ascending order of the numeric value of their layer-num: a layer
\* with layer-num 2 precedes a layer with layer-num 10.
C27_LayersInNumericOrder ==
    util_op = "split_layers" =>
        \A key \in DOMAIN util_out :
            \A i, j \in 1..Len(util_out[key]) :
                i < j => LayerNumOf(util_out[key][i]) <= LayerNumOf(util_out[key][j])

\* a hill body of two layers, "2" first in the document and "10" second: the
\* layer "10" is exported first
C27_TenBeforeTwo ==
    /\ util_op = "split_layers"
    /\ Len(util_in) = 2
    /\ util_in[1].layer_num = <<2>>
    /\ util_in[2].layer_num = <<1, 0>>
    /\ util_out["hillBody"] = <<[name |-> 2], [name |-> 1]>>

(***************************************************************************)
(* The hill size against the length of the out-run.                        *)
(***************************************************************************)
\* generate_hill_model went past the hill-size loop without raising
HillSizeComputed ==
    /\ epc \in {"generate_hill_meta", "generate_manifest", "zipdir", "rmtree", "done"}
    /\ error = "none"

\* C28: whenever the export computes a hill-size path length it satisfies
\* 0 <= hillSizePathLength <= outRunPathLength, the latter being
\* calc_vertices_path_size of the same out-run point sequence.
C28_HillSizeWithinOutRun ==
    HillSizeComputed =>
        /\ 0 <= distance
        /\ distance <= calc_vertices_path_size(out_run_path)

\* the cross-section met inside the last of two segments: the hill size is
\* more than the first segment and less than the out-run
C28_CrossInsideLastSegment ==
    /\ HillSizeComputed
    /\ Len(out_run_path) = 3
    /\ point_point_dst(out_run_path[1], out_run_path[2]) < distance
    /\ distance < calc_vertices_path_size(out_run_path)

(***************************************************************************)
(* Termination of csp_sub_points_dst.  The function is one thread running  *)
(* to completion: a step that can be taken is taken.                       *)
(***************************************************************************)
SpecSampleFair == SpecSample /\ WF_vars(NextSample)

\* a round of the inner loop
WalkStep == spc = "walk" /\ spc' = "walk" /\ points_out' \in Seq(Int) /\ vars' # vars

\* C29: csp_sub_points_dst terminates on every chain of segments of finite
\* length when the spacing is above 0; it emits at most ceil(length/spacing)
\* interior points per segment; every round of the inner loop strictly
\* decreases the remaining segment length.
C29_Terminates ==
    /\ [][WalkStep => length_left' < length_left]_vars
    /\ [](\A k \in 1..(Len(csp_sub) - 1) :
              Cardinality(InteriorOf(k))
                  <= CeilDiv(bezierlength(SegmentAt(k)), point_dst))
    /\ <>Returned

\* a run that returned after a walk of ten rounds over one segment, the last of which
\* falls within 1e-4 of the segment's end and emits nothing
C29_LongWalkReturned ==
    /\ Returned
    /\ point_dst > 0
    /\ \E k \in 1..(Len(csp_sub) - 1) : Cardinality(InteriorOf(k)) = 9

(***************************************************************************)
(* A node of type "shape-group" whose children gave no shape:              *)
(* recursively_iterate_layer hands clip_polygons the list it collected,    *)
(* empty or not, and clip_polygons starts with polygons[0].                *)
(***************************************************************************)
\* Group.bounding_box of a group without a shape child is None; nothing
\* reads it before polygons[0] is evaluated
NoneBox == [left |-> 0, top |-> 0, width |-> 0, height |-> 0]

InitGroup ==
    /\ polygons \in PolygonSeqs \cup {<<>>}
    /\ bounding_box \in IF polygons = <<>> THEN GridBoxes \cup {NoneBox}
                        ELSE {BBoxOfAll(polygons)}
    /\ grid_size \in 2..MaxGrid
    /\ optimize = TRUE
    /\ op = "none"
    /\ result = <<>>
    /\ LoopIdle
    /\ SampleIdle
    /\ UtilIdle
    /\ EffectIdle

\* the group has shapes: clipped, triangulated, flattened and appended
ExportGroupOfShapes ==
    /\ op = "none"
    /\ Len(polygons) > 0
    /\ result' = GroupSubShapes(polygons, bounding_box, grid_size)
    /\ op' = "shape-group"
    /\ UNCHANGED <<clipInputs, loopVars, sampleVars, utilVars, effectVars>>

\* the group has no shape: polygons[0] of clip_polygons raises IndexError, which
\* nothing between there and effect() catches
ExportGroupOfNothing ==
    /\ op = "none"
    /\ Len(polygons) = 0
    /\ op' = "clip_polygons"
    /\ error' = "IndexError"
    /\ UNCHANGED <<clipInputs, result, loopVars, sampleVars, utilVars,
                 document, files, epc, hillLocals, textureVars>>

NextGroup ==
    \/ ExportGroupOfShapes
    \/ ExportGroupOfNothing

SpecGroup == InitGroup /\ [][NextGroup]_vars

\* C30: clip_polygons called with an empty list of polygons, as for a
\* shape-group that contains no shape, returns an empty cell list and the
\* export goes on with an object that has no sub-shapes; no error is raised.
C30_EmptyGroupExported ==
    (polygons = <<>> /\ op # "none")
        => /\ error = "none"
           /\ op = "shape-group"
           /\ result = <<>>

\* the export of a group without shapes ended in clip_polygons
C30_EmptyGroupRaises ==
    /\ polygons = <<>>
    /\ op = "clip_polygons"
    /\ error = "IndexError"

====
